---- MODULE Spec2Model ----
(***************************************************************************)
(* A model of maniforge: the values-tree deep merge, the config            *)
(* translator, the pre-flight validator, the state differ and the          *)
(* plan/apply reconciliation cycle.                                        *)
(*                                                                         *)
(* YAML/Python values are tagged trees: a dict is Map(f) with f a function *)
(* from string keys to trees, a list is List(q), scalars are Str, Num,     *)
(* Bool and Null.  Python dicts are objects: a dict of the platform config *)
(* that is stored into a values tree without a copy is modelled by         *)
(* Ref(name), an alias of platform.nodeSelectors[name].labels.             *)
(***************************************************************************)
EXTENDS Integers, Sequences, FiniteSets, TLC

VARIABLES
    pc,          \* position of the running command, or the pure-function step
    mode,        \* "plan" | "apply" | "none"
    cfg,         \* the loaded maniforge.yaml document (apps_config)
    platform,    \* the platform config built by ConfigLoader.load
    store,       \* on-disk manifests: app-id -> helm-release document
    errors,      \* the batch of validation errors of the current run
    current,     \* ManifestDiffer.current_state
    desired,     \* ManifestDiffer.desired_state (in memory, may hold aliases)
    changes,     \* result of get_changes
    translated,  \* apps translated so far in this run, in order
    written,     \* apps whose manifest this run has written
    analysis,    \* result of the capacity analysis of a plan
    prev,        \* how the previous run ended: "none" | "plan" | "apply" | "aborted" | "crashed"
    store0,      \* the store as it was when the current run started
    arg,         \* input of a pure-function step
    ret          \* output of a pure-function step

vars == <<pc, mode, cfg, platform, store, errors, current, desired, changes,
          translated, written, analysis, prev, store0, arg, ret>>

runVars == <<mode, cfg, platform, store, errors, current, desired, changes,
             translated, written, analysis, prev, store0>>

---------------------------------------------------------------------------
(* Tagged trees                                                            *)

Null == [kind |-> "null"]
Str(s) == [kind |-> "str", s |-> s]
Num(n) == [kind |-> "int", n |-> n]
Bool(b) == [kind |-> "bool", b |-> b]
Map(f) == [kind |-> "map", m |-> f]
List(q) == [kind |-> "list", q |-> q]
Ref(r) == [kind |-> "ref", r |-> r]

EmptyMap == Map([k \in {} |-> Null])

\* isinstance(x, dict): an aliased dict is a dict
IsDict(x) == x.kind \in {"map", "ref"}

\* d.get(key, default) on a TLA+ function used as a dict
Get(d, key, default) == IF key \in DOMAIN d THEN d[key] ELSE default

\* Python truthiness of a tree
Truthy(x) ==
    CASE x.kind = "null" -> FALSE
      [] x.kind = "str" -> x.s # ""
      [] x.kind = "int" -> x.n # 0
      [] x.kind = "bool" -> x.b
      [] x.kind = "map" -> DOMAIN x.m # {}
      [] x.kind = "list" -> Len(x.q) > 0
      [] OTHER -> TRUE

---------------------------------------------------------------------------
(* utils.deep_merge: the tree that target has become after the call.  plat  *)
(* holds the dicts that aliases point at.                                  *)

\* the items of a dict, read through an alias
Items(x, plat) == IF x.kind = "ref" THEN plat.nodeSelectors[x.r].labels.m ELSE x.m

RECURSIVE deep_merge_leftbiased(_, _, _)
deep_merge_leftbiased(target, source, plat) ==
    IF target.kind = "ref" THEN target
    ELSE LET src == Items(source, plat)
         IN  Map([key \in DOMAIN target.m \cup DOMAIN src |->
                IF key \notin DOMAIN src THEN target.m[key]
                ELSE IF key \in DOMAIN target.m
                     THEN IF IsDict(target.m[key]) /\ IsDict(src[key])
                          THEN deep_merge_leftbiased(target.m[key], src[key], plat)
                          ELSE target.m[key]
                     ELSE src[key]])

RECURSIVE deep_merge_accumulating(_, _, _)
deep_merge_accumulating(target, source, plat) ==
    IF target.kind = "ref" THEN target
    ELSE LET src == Items(source, plat)
         IN  Map([key \in DOMAIN target.m \cup DOMAIN src |->
                IF key \notin DOMAIN src THEN target.m[key]
                ELSE IF key \in DOMAIN target.m
                     THEN IF IsDict(target.m[key]) /\ IsDict(src[key])
                          THEN deep_merge_accumulating(target.m[key], src[key], plat)
                          ELSE IF target.m[key].kind = "int" /\ src[key].kind = "int"
                               THEN Num(target.m[key].n + src[key].n)
                               ELSE src[key]
                     ELSE src[key]])

RECURSIVE deep_merge(_, _, _)
deep_merge(target, source, plat) ==
    IF target.kind = "ref" THEN target   \* merged in place: see deep_merge_writes
    ELSE LET src == Items(source, plat)
         IN  Map([key \in DOMAIN target.m \cup DOMAIN src |->
                IF key \notin DOMAIN src THEN target.m[key]
                ELSE IF key \in DOMAIN target.m
                        /\ IsDict(target.m[key]) /\ IsDict(src[key])
                     THEN deep_merge(target.m[key], src[key], plat)
                     ELSE src[key]])

---------------------------------------------------------------------------
(* Helpers for Python dicts held as TLA+ functions                          *)

EmptyDict == [k \in {} |-> Null]

\* d[key] = value
Put(d, key, value) == [x \in DOMAIN d \cup {key} |-> IF x = key THEN value ELSE d[x]]

\* an insertion-ordered dict of declarations: a sequence of [name, config]
\* records with distinct names
Keys(items) == {items[i].name : i \in DOMAIN items}
Item(items, name) == (CHOOSE i \in DOMAIN items : items[i].name = name)

\* existing.update(incoming)
Update(existing, incoming) ==
    [x \in DOMAIN existing \cup DOMAIN incoming |->
        IF x \in DOMAIN incoming THEN incoming[x] ELSE existing[x]]

\* the value None where the code expects a string
NoneStr == "<None>"

\* truthiness of a string-or-None
TruthyStr(s) == s # NoneStr /\ s # ""

\* a raised exception, in place of a returned value
Raise(e) == [kind |-> "raise", e |-> e]
Raised(x) == x.kind = "raise"

---------------------------------------------------------------------------
(* config.ConfigLoader                                                     *)

\* the fallback resource profiles (no resource-profiles.yaml beside the config)
FallbackResourceProfiles ==
    ("c.pico" :> [cpu |-> [requests |-> "100m", limits |-> "250m"],
                  memory |-> [requests |-> "256Mi", limits |-> "512Mi"]])
    @@ ("c.small" :> [cpu |-> [requests |-> "250m", limits |-> "500m"],
                      memory |-> [requests |-> "512Mi", limits |-> "1Gi"]])
    @@ ("r.large" :> [cpu |-> [requests |-> "500m", limits |-> "1000m"],
                      memory |-> [requests |-> "4Gi", limits |-> "8Gi"]])

default_platform_config ==
    [resourceProfiles |-> FallbackResourceProfiles,
     networkTypes |->
        [clusterip |-> [service |-> [type |-> "ClusterIP"], podOptions |-> EmptyMap],
         nodeport |-> [service |-> [type |-> "NodePort"], podOptions |-> EmptyMap],
         loadbalancer |-> [service |-> [type |-> "LoadBalancer"], podOptions |-> EmptyMap],
         host |-> [service |-> [type |-> "ClusterIP"],
                   podOptions |-> Map([hostNetwork |-> Bool(TRUE),
                                       dnsPolicy |-> Str("ClusterFirstWithHostNet")])]],
     nodeSelectors |-> EmptyDict,
     ingressDefaults |->
        [className |-> "traefik",
         annotations |-> Map(
            ("traefik.ingress.kubernetes.io/router.entrypoints" :> Str("websecure"))
            @@ ("traefik.ingress.kubernetes.io/router.tls" :> Str("true"))
            @@ ("cert-manager.io/cluster-issuer" :> Str("letsencrypt-dns")))],
     helmChart |-> [name |-> "app-template", version |-> "4.4.0",
                    repository |-> [name |-> "bjw-s", namespace |-> "flux-system"]]]

OverridesKeys == {"resourceProfiles", "networkTypes", "ingressDefaults", "helmChart", "nodeSelectors"}

\* ConfigLoader.load: defaults, then the overrides of the document, then one
\* scheduling label per declared node group
load(config) ==
    LET base == default_platform_config
        merged == [key \in OverridesKeys |->
                     IF key \in DOMAIN config THEN Update(base[key], config[key])
                     ELSE base[key]]
        nodes_cfg == Get(config, "nodes", <<>>)
        sel == merged["nodeSelectors"]
    IN  [resourceProfiles |-> merged["resourceProfiles"],
         networkTypes |-> merged["networkTypes"],
         ingressDefaults |-> merged["ingressDefaults"],
         helmChart |-> merged["helmChart"],
         nodeSelectors |->
            [n \in DOMAIN sel \cup Keys(nodes_cfg) |->
                IF n \in DOMAIN sel THEN sel[n]
                ELSE [labels |-> Map("type" :> Str(n))]]]


---------------------------------------------------------------------------
(* translator.AppTranslator                                                *)

\* "a:b:c".rsplit(':', 1): an image string is held as its ':'-separated parts
RECURSIVE JoinColon(_)
JoinColon(parts) ==
    IF Len(parts) = 1 THEN parts[1]
    ELSE JoinColon(SubSeq(parts, 1, Len(parts) - 1)) \o ":" \o parts[Len(parts)]

translate_image(image_str) ==
    IF Len(image_str) > 1
    THEN Map([repository |-> Str(JoinColon(SubSeq(image_str, 1, Len(image_str) - 1))),
              tag |-> Str(image_str[Len(image_str)])])
    ELSE Map([repository |-> Str(image_str[1]), tag |-> Str("latest")])

\* the loop over the declared ports; acc is result['service']['main']['ports']
RECURSIVE port_entries(_, _, _, _)
port_entries(ports, i, network_config, acc) ==
    IF i > Len(ports) THEN Map(acc)
    ELSE LET port_config == ports[i]
             port_name == Get(port_config, "name", "port-" \o ToString(i - 1))
         IN  IF "port" \notin DOMAIN port_config THEN Raise("KeyError")
             ELSE LET entry == [enabled |-> Bool(TRUE),
                                port |-> Num(port_config["port"]),
                                targetPort |-> Num(Get(port_config, "targetPort", port_config["port"])),
                                protocol |-> Str(Get(port_config, "protocol", "TCP"))]
                      withNodePort ==
                          IF Get(Get(network_config, "service", EmptyDict), "type", NoneStr) = "NodePort"
                             /\ "nodePort" \in DOMAIN port_config
                          THEN Put(entry, "nodePort", Num(port_config["nodePort"]))
                          ELSE entry
                  IN  port_entries(ports, i + 1, network_config, Put(acc, port_name, Map(withNodePort)))

translate_network(plat, network_type, ports) ==
    LET network_config == Get(plat.networkTypes, network_type, EmptyDict)
        service_type == Get(Get(network_config, "service", EmptyDict), "type", "ClusterIP")
        pod_options == Get(network_config, "podOptions", EmptyMap)
        port_map ==
            IF Len(ports) > 0 THEN port_entries(ports, 1, network_config, EmptyDict)
            ELSE Map([http |-> Map([enabled |-> Bool(TRUE), port |-> Num(80),
                                    targetPort |-> Num(8080), protocol |-> Str("TCP")])])
        service == Map([main |-> Map([controller |-> Str("main"),
                                      type |-> Str(service_type),
                                      ports |-> port_map])])
    IN  IF Raised(port_map) THEN port_map
        ELSE IF Truthy(pod_options)
             THEN Map([service |-> service, defaultPodOptions |-> pod_options])
             ELSE Map([service |-> service])

\* one persistence entry, or the KeyError of a missing required field
persistence_volume(volume_config) ==
    IF "type" \notin DOMAIN volume_config \/ "mount" \notin DOMAIN volume_config
    THEN Raise("KeyError")
    ELSE LET volume_type == volume_config["type"]
             common == [enabled |-> Bool(TRUE),
                        type |-> Str(volume_type),
                        globalMounts |-> List(<<Map([path |-> Str(volume_config["mount"]),
                                                     readOnly |-> Bool(Get(volume_config, "readonly", FALSE))])>>)]
         IN  CASE volume_type = "hostPath" ->
                    IF "path" \notin DOMAIN volume_config THEN Raise("KeyError")
                    ELSE Map(Put(common, "hostPath", Str(volume_config["path"])))
               [] volume_type = "persistentVolumeClaim" ->
                    IF "size" \notin DOMAIN volume_config THEN Raise("KeyError")
                    ELSE LET sized == Put(common, "size", Str(volume_config["size"]))
                             classed == IF "storageClass" \in DOMAIN volume_config
                                        THEN Put(sized, "storageClass", Str(volume_config["storageClass"]))
                                        ELSE sized
                         IN  Map(Put(classed, "accessMode",
                                     Str(Get(volume_config, "accessMode", "ReadWriteOnce"))))
               [] volume_type = "nfs" ->
                    IF "server" \notin DOMAIN volume_config \/ "path" \notin DOMAIN volume_config
                    THEN Raise("KeyError")
                    ELSE Map(Put(Put(common, "server", Str(volume_config["server"])),
                                 "path", Str(volume_config["path"])))
               [] OTHER -> Map(common)

translate_storage(storage_config) ==
    LET persistence == [v \in DOMAIN storage_config |-> persistence_volume(storage_config[v])]
    IN  IF \E v \in DOMAIN persistence : Raised(persistence[v]) THEN Raise("KeyError")
        ELSE IF DOMAIN persistence # {} THEN Map([persistence |-> Map(persistence)])
        ELSE EmptyMap

translate_resources_fallback(plat, profile_name) ==
    LET profile == Get(plat.resourceProfiles, profile_name, EmptyDict)
    IN  \* an unknown profile gets the default quantities
        Map([controllers |-> Map([main |-> Map([containers |-> Map([main |-> Map([resources |->
                Map([requests |-> Map([cpu |-> Str(Get(Get(profile, "cpu", EmptyDict), "requests", "100m")),
                                       memory |-> Str(Get(Get(profile, "memory", EmptyDict), "requests", "128Mi"))]),
                     limits |-> Map([cpu |-> Str(Get(Get(profile, "cpu", EmptyDict), "limits", "500m")),
                                     memory |-> Str(Get(Get(profile, "memory", EmptyDict), "limits", "512Mi"))])])
             ])])])])])

translate_resources(plat, profile_name) ==
    LET profile == Get(plat.resourceProfiles, profile_name, EmptyDict)
    IN  IF DOMAIN profile = {} THEN EmptyMap
        ELSE Map([controllers |-> Map([main |-> Map([containers |-> Map([main |-> Map([resources |->
                Map([requests |-> Map([cpu |-> Str(Get(Get(profile, "cpu", EmptyDict), "requests", "100m")),
                                       memory |-> Str(Get(Get(profile, "memory", EmptyDict), "requests", "128Mi"))]),
                     limits |-> Map([cpu |-> Str(Get(Get(profile, "cpu", EmptyDict), "limits", "500m")),
                                     memory |-> Str(Get(Get(profile, "memory", EmptyDict), "limits", "512Mi"))])])
             ])])])])])

\* the labels dict itself is returned, not a copy of it
translate_node_selector(plat, node_selector) ==
    LET node_config == Get(plat.nodeSelectors, node_selector, EmptyDict)
        labels == Get(node_config, "labels", EmptyMap)
    IN  IF Truthy(labels)
        THEN Map([defaultPodOptions |-> Map([nodeSelector |-> Ref(node_selector)])])
        ELSE EmptyMap

translate_ingress(plat, app_name, domain) ==
    LET host == app_name \o "." \o domain
    IN  Map([ingress |-> Map([main |-> Map(
            [enabled |-> Bool(TRUE),
             className |-> Str(Get(plat.ingressDefaults, "className", "traefik")),
             annotations |-> Get(plat.ingressDefaults, "annotations", EmptyMap),
             hosts |-> List(<<Map([host |-> Str(host),
                                   paths |-> List(<<Map([path |-> Str("/"),
                                                         pathType |-> Str("Prefix"),
                                                         service |-> Map([identifier |-> Str("main"),
                                                                          port |-> Str("http")])])>>)])>>),
             tls |-> List(<<Map([hosts |-> List(<<Str(host)>>),
                                 secretName |-> Str(app_name \o "-tls")])>>)])])])


\* what deep_merge(target, source) writes into dicts that target only aliases:
\* the set of <<node selector, its labels after the call>>
RECURSIVE deep_merge_writes(_, _, _)
deep_merge_writes(target, source, plat) ==
    IF target.kind = "ref"
    THEN {<<target.r, deep_merge(plat.nodeSelectors[target.r].labels, source, plat)>>}
    ELSE LET src == Items(source, plat)
         IN  UNION {IF key \in DOMAIN target.m
                       /\ IsDict(target.m[key]) /\ IsDict(src[key])
                    THEN deep_merge_writes(target.m[key], src[key], plat)
                    ELSE {} : key \in DOMAIN src}

platform_after(plat, writes) ==
    [plat EXCEPT !.nodeSelectors =
        [n \in DOMAIN @ |->
            IF \E w \in writes : w[1] = n
            THEN Put(@[n], "labels", (CHOOSE w \in writes : w[1] = n)[2])
            ELSE @[n]]]

\* a tree as it reads now: every alias replaced by what it points at
RECURSIVE Deref(_, _)
Deref(x, plat) ==
    CASE x.kind = "ref" -> Deref(plat.nodeSelectors[x.r].labels, plat)
      [] x.kind = "map" -> Map([k \in DOMAIN x.m |-> Deref(x.m[k], plat)])
      [] x.kind = "list" -> List([i \in DOMAIN x.q |-> Deref(x.q[i], plat)])
      [] OTHER -> x

FacetOrder_networkFirst == <<"profile", "network", "nodeSelector", "storage", "ingress">>

\* the order of the `configurations` list
FacetOrder == <<"profile", "nodeSelector", "network", "storage", "ingress">>

ingress_wanted_whateverTheFlag(app_config, cluster_config) ==
    TruthyStr(Get(cluster_config, "domain", NoneStr))

\* the condition of the ingress entry: the flag counts as set when absent
ingress_wanted(app_config, cluster_config) ==
    /\ TruthyStr(Get(cluster_config, "domain", NoneStr))
    /\ Get(app_config, "ingress", TRUE)

\* the lambda of one entry of `configurations`
facet(name, plat, app_name, app_config, cluster_config) ==
    LET defaults == Get(cluster_config, "defaults", EmptyDict)
    IN  CASE name = "profile" ->
                translate_resources(plat, Get(app_config, "profile", Get(defaults, "profile", NoneStr)))
          [] name = "nodeSelector" ->
                translate_node_selector(plat, Get(app_config, "nodeSelector",
                                                  Get(defaults, "nodeSelector", NoneStr)))
          [] name = "network" ->
                translate_network(plat, Get(app_config, "network", "clusterip"),
                                  Get(app_config, "ports", <<>>))
          [] name = "storage" ->
                IF "storage" \in DOMAIN app_config
                THEN translate_storage(app_config["storage"]) ELSE EmptyMap
          [] name = "ingress" ->
                IF ingress_wanted(app_config, cluster_config)
                THEN translate_ingress(plat, app_name, cluster_config["domain"])
                ELSE EmptyMap

\* the loop over `configurations`, from entry i on
RECURSIVE apply_facets(_, _, _, _, _, _)
apply_facets(i, values, plat, app_name, app_config, cluster_config) ==
    IF i > Len(FacetOrder) THEN [values |-> values, platform |-> plat]
    ELSE LET config == facet(FacetOrder[i], plat, app_name, app_config, cluster_config)
         IN  IF Raised(config) THEN [values |-> config, platform |-> plat]
             ELSE IF Truthy(config)
                  THEN apply_facets(i + 1, deep_merge(values, config, plat),
                                    platform_after(plat, deep_merge_writes(values, config, plat)),
                                    app_name, app_config, cluster_config)
                  ELSE apply_facets(i + 1, values, plat, app_name, app_config, cluster_config)

\* the tree `values` starts as
base_values(app_config) ==
    Map([controllers |-> Map([main |-> Map(
            [type |-> Str(Get(app_config, "type", "deployment")),
             containers |-> Map([main |-> Map(
                [image |-> translate_image(app_config["image"]),
                 env |-> Get(app_config, "env", EmptyMap)])])])]),
         defaultPodOptions |-> EmptyMap])

\* translate_app: the values tree it returns (or the exception it raises) and
\* the platform config as the call leaves it
translate_app(plat, app_name, app_config, cluster_config) ==
    IF "image" \notin DOMAIN app_config
    THEN [values |-> Raise("KeyError"), platform |-> plat]
    ELSE apply_facets(1, base_values(app_config), plat, app_name, app_config, cluster_config)

---------------------------------------------------------------------------
(* utils.build_helm_release and the generator's own copy of it             *)

build_helm_release(app_name, app_config, values, helm_chart_config) ==
    Map([apiVersion |-> Str("helm.toolkit.fluxcd.io/v2beta2"),
         kind |-> Str("HelmRelease"),
         metadata |-> Map([name |-> Str(app_name),
                           namespace |-> Str(Get(app_config, "namespace", "default"))]),
         spec |-> Map([interval |-> Str("1m"),
                       chart |-> Map([spec |-> Map(
                            [chart |-> Str(Get(helm_chart_config, "name", "app-template")),
                             version |-> Str(Get(helm_chart_config, "version", "4.4.0")),
                             sourceRef |-> Map(
                                [kind |-> Str("HelmRepository"),
                                 name |-> Str(Get(Get(helm_chart_config, "repository", EmptyDict),
                                                  "name", "bjw-s")),
                                 namespace |-> Str(Get(Get(helm_chart_config, "repository", EmptyDict),
                                                       "namespace", "flux-system"))])])]),
                       values |-> values])])

generator_helm_release(app_name, app_config, values, helm_chart_config) ==
    Map([apiVersion |-> Str("helm.toolkit.fluxcd.io/v2beta2"),
         kind |-> Str("HelmRelease"),
         metadata |-> Map([name |-> Str(app_name),
                           namespace |-> Str(Get(app_config, "namespace", "default"))]),
         spec |-> Map([interval |-> Str("1m"),
                       chart |-> Map([spec |-> Map(
                            [chart |-> Str(Get(helm_chart_config, "name", "app-template")),
                             version |-> Str(Get(helm_chart_config, "version", "4.4.0")),
                             sourceRef |-> Map(
                                [kind |-> Str("HelmRepository"),
                                 name |-> Str(Get(Get(helm_chart_config, "repository", EmptyDict),
                                                  "name", "bjw-s")),
                                 namespace |-> Str(Get(Get(helm_chart_config, "repository", EmptyDict),
                                                       "namespace", "flux-system"))])])]),
                       values |-> values])])

\* yaml.dump of an in-memory document: the text holds what every aliased
\* dict holds at the moment of the call
yaml_dump(doc, plat) == Deref(doc, plat)


---------------------------------------------------------------------------
(* config.ConfigValidator                                                  *)

\* strings that int() accepts, among the strings the model uses
DecimalStrings == {"1", "2", "3"}

\* int(x) does not raise
IntLike(x) ==
    \/ x.kind \in {"int", "bool"}
    \/ x.kind = "str" /\ x.s \in DecimalStrings

\* the checks of one app, in the order of the code
app_errors(config, plat, app_name, app_config) ==
    LET defaults == Get(Get(config, "cluster", EmptyDict), "defaults", EmptyDict)
        nodes_cfg == Get(config, "nodes", <<>>)
        profile == Get(app_config, "profile", Get(defaults, "profile", NoneStr))
        network == Get(app_config, "network", "clusterip")
        node_selector == Get(app_config, "nodeSelector", Get(defaults, "nodeSelector", NoneStr))
        err(e) == <<[item |-> app_name, error |-> e]>>
    IN  (IF "image" \notin DOMAIN app_config THEN err("missing image") ELSE <<>>)
        \o (IF TruthyStr(profile) /\ profile \notin DOMAIN plat.resourceProfiles
            THEN err("unknown profile") ELSE <<>>)
        \o (IF network \notin DOMAIN plat.networkTypes
            THEN err("unknown network type") ELSE <<>>)
        \o (IF TruthyStr(node_selector)
               /\ node_selector \notin DOMAIN plat.nodeSelectors
               /\ node_selector \notin Keys(nodes_cfg)
            THEN err("unknown nodeSelector") ELSE <<>>)

\* the checks of one node group
node_errors(node_name, node_spec) ==
    LET err(e) == <<[item |-> node_name, error |-> e]>>
    IN  IF node_spec.kind # "map" THEN err("must be a mapping")
        ELSE (IF "count" \in DOMAIN node_spec.m /\ ~IntLike(node_spec.m["count"])
              THEN err("count must be an integer") ELSE <<>>)
             \o (IF DOMAIN node_spec.m \cap {"cpu", "cores", "memory", "mem"} = {}
                 THEN err("specify cpu and memory") ELSE <<>>)

RECURSIVE all_app_errors(_, _, _)
all_app_errors(config, plat, i) ==
    LET apps == Get(config, "apps", <<>>)
    IN  IF i > Len(apps) THEN <<>>
        ELSE app_errors(config, plat, apps[i].name, apps[i].config)
             \o all_app_errors(config, plat, i + 1)

RECURSIVE all_node_errors(_, _)
all_node_errors(config, i) ==
    LET nodes_cfg == Get(config, "nodes", <<>>)
    IN  IF i > Len(nodes_cfg) THEN <<>>
        ELSE node_errors(nodes_cfg[i].name, nodes_cfg[i].config)
             \o all_node_errors(config, i + 1)

\* a validator that stops at the first item in error
validation_errors_failfast(config, plat) ==
    LET all == all_app_errors(config, plat, 1) \o all_node_errors(config, 1)
    IN  IF all = <<>> THEN <<>> ELSE <<all[1]>>

\* the list `errors` at the end of validate
validation_errors(config, plat) ==
    all_app_errors(config, plat, 1) \o all_node_errors(config, 1)

validate_always(errs) == TRUE

\* what validate returns
validate(errs) == Len(errs) = 0

---------------------------------------------------------------------------
(* differ.ManifestDiffer                                                   *)

\* a fixed listing order of the output directory
DirOrder == <<"api", "db", "old", "web">>

RECURSIVE Listing(_, _)
Listing(names, i) ==
    IF i > Len(DirOrder) THEN <<>>
    ELSE (IF DirOrder[i] \in names THEN <<DirOrder[i]>> ELSE <<>>) \o Listing(names, i + 1)

_normalize_manifest(manifest) == manifest

Change(action, app_name, before, after) ==
    [action |-> action, app |-> app_name, before |-> before, after |-> after]

\* "# New apps": des_order is the key order of desired_state
new_apps(cur, des, des_order) ==
    LET names == SelectSeq(des_order, LAMBDA a : a \notin DOMAIN cur)
    IN  [i \in DOMAIN names |-> Change("create", names[i], Null, des[names[i]])]

removed_apps_none(cur, des) == <<>>

\* "# Removed apps"
removed_apps(cur, des) ==
    LET names == SelectSeq(Listing(DOMAIN cur, 1), LAMBDA a : a \notin DOMAIN des)
    IN  [i \in DOMAIN names |-> Change("delete", names[i], cur[names[i]], Null)]

modified_apps_always(cur, des, des_order, plat) ==
    LET names == SelectSeq(des_order, LAMBDA a : a \in DOMAIN cur)
    IN  [i \in DOMAIN names |-> Change("update", names[i], cur[names[i]], des[names[i]])]

modified_apps_swapped(cur, des, des_order, plat) ==
    LET names == SelectSeq(des_order, LAMBDA a :
                    /\ a \in DOMAIN cur
                    /\ _normalize_manifest(cur[a]) # Deref(_normalize_manifest(des[a]), plat))
    IN  [i \in DOMAIN names |-> Change("update", names[i], des[names[i]], cur[names[i]])]

modified_apps_unguarded(cur, des, des_order, plat) ==
    LET names == SelectSeq(des_order, LAMBDA a :
                    \/ a \notin DOMAIN cur
                    \/ _normalize_manifest(cur[a]) # Deref(_normalize_manifest(des[a]), plat))
    IN  [i \in DOMAIN names |-> Change("update", names[i], Get(cur, names[i], Null), des[names[i]])]

\* "# Modified apps": dict inequality reads every aliased dict as it is now
modified_apps(cur, des, des_order, plat) ==
    LET names == SelectSeq(des_order, LAMBDA a :
                    /\ a \in DOMAIN cur
                    /\ _normalize_manifest(cur[a]) # Deref(_normalize_manifest(des[a]), plat))
    IN  [i \in DOMAIN names |-> Change("update", names[i], cur[names[i]], des[names[i]])]

get_changes(cur, des, des_order, plat) ==
    new_apps(cur, des, des_order) \o removed_apps(cur, des)
    \o modified_apps(cur, des, des_order, plat)


---------------------------------------------------------------------------
(* differ.ManifestDiffer.print_changes and what it extracts from manifests  *)

\* isinstance(x, Mapping)
IsMapping(x) == x.kind = "map"

\* d.get(key, {}), d being taken for a dict: AttributeError when it is none
get_or_empty(d, key) ==
    IF Raised(d) THEN d
    ELSE IF ~IsMapping(d) THEN Raise("AttributeError")
    ELSE Get(d.m, key, EmptyMap)

\* manifest.get('spec', {}).get('values', {})
values_of(manifest) == get_or_empty(get_or_empty(manifest, "spec"), "values")

RECURSIVE _get_nested(_, _)
_get_nested(obj, keys) ==
    IF keys = <<>> THEN obj
    ELSE IF ~IsMapping(obj) THEN Null
    ELSE IF Get(obj.m, Head(keys), Null).kind = "null" THEN Null
    ELSE _get_nested(obj.m[Head(keys)], Tail(keys))

ContainerPath == <<"controllers", "main", "containers", "main">>

ImagePath == ContainerPath \o <<"image">>

\* x or default, x a str or None
or_default(x, default) == IF Truthy(x) THEN x ELSE Str(default)

\* f"{repo}:{tag}" if repo else "unknown"
image_text(repo, tag) == IF Truthy(repo) THEN Str(repo.s \o ":" \o tag.s) ELSE Str("unknown")

image_of(image_config) ==
    IF ~IsMapping(image_config) THEN Str("unknown")
    ELSE image_text(or_default(Get(image_config.m, "repository", Str("")), ""),
                    or_default(Get(image_config.m, "tag", Str("latest")), "latest"))

_get_image_from_values(values) ==
    IF Raised(values) THEN values ELSE image_of(_get_nested(values, ImagePath))

resources_in(resources) == IF IsMapping(resources) THEN resources ELSE EmptyMap

resources_of(container) ==
    IF ~IsMapping(container) THEN EmptyMap
    ELSE resources_in(Get(container.m, "resources", EmptyMap))

_get_resources_from_values(values) ==
    IF Raised(values) THEN values ELSE resources_of(_get_nested(values, ContainerPath))

\* the lines printed for a change that creates an app
created_lines(app_name, image, namespace) ==
    IF Raised(image) THEN image
    ELSE IF Raised(namespace) THEN namespace
    ELSE [kind |-> "line", action |-> "create", app |-> app_name, image |-> image.s,
          namespace |-> namespace.s]

\* the lines printed for a change that modifies an app
updated_lines(app_name, current_image, desired_image, current_resources, desired_resources) ==
    IF Raised(current_image) THEN current_image
    ELSE IF Raised(desired_image) THEN desired_image
    ELSE IF Raised(current_resources) THEN current_resources
    ELSE IF Raised(desired_resources) THEN desired_resources
    ELSE [kind |-> "line", action |-> "update", app |-> app_name,
          image |-> IF current_image # desired_image
                    THEN <<current_image.s, desired_image.s>> ELSE <<>>,
          resources |-> current_resources # desired_resources]

\* desired.get('metadata', {}).get('namespace', 'default')
namespace_of(metadata) ==
    IF Raised(metadata) THEN metadata
    ELSE IF ~IsMapping(metadata) THEN Raise("AttributeError")
    ELSE Get(metadata.m, "namespace", Str("default"))

\* the body of the loop of print_changes
change_lines(action, app_name, before, after) ==
    CASE action = "create" ->
            created_lines(app_name, _get_image_from_values(values_of(after)),
                          namespace_of(get_or_empty(after, "metadata")))
      [] action = "delete" -> [kind |-> "line", action |-> "delete", app |-> app_name]
      [] OTHER ->
            updated_lines(app_name,
                          _get_image_from_values(values_of(before)),
                          _get_image_from_values(values_of(after)),
                          _get_resources_from_values(values_of(before)),
                          _get_resources_from_values(values_of(after)))

all_change_lines(change_list, plat) ==
    [i \in DOMAIN change_list |->
        change_lines(change_list[i].action, change_list[i].app, change_list[i].before,
                     Deref(change_list[i].after, plat))]

first_failure(lines) ==
    lines[CHOOSE i \in DOMAIN lines :
            Raised(lines[i]) /\ \A j \in DOMAIN lines : Raised(lines[j]) => i <= j]

report_of(lines) ==
    IF \E i \in DOMAIN lines : Raised(lines[i]) THEN first_failure(lines)
    ELSE [kind |-> "report", lines |-> lines]

\* print_changes: what it prints, or the exception that ends it
print_changes(change_list, plat) == report_of(all_change_lines(change_list, plat))

---------------------------------------------------------------------------
(* Floats, held exactly: the number n/d * 2^e2 * 5^e5 with n/d in lowest   *)
(* terms and neither n nor d divisible by 2 or 5.  Every decimal quantity   *)
(* of the configuration and every binary or decimal unit multiple of it has *)
(* such a form with small n and d.                                          *)

Abs(x) == IF x < 0 THEN -x ELSE x

Sign(x) == IF x < 0 THEN -1 ELSE IF x > 0 THEN 1 ELSE 0

Min(a, b) == IF a < b THEN a ELSE b

RECURSIVE GCD(_, _)
GCD(a, b) == IF b = 0 THEN a ELSE GCD(b, a % b)

RECURSIVE Pow(_, _)
Pow(b, k) == IF k = 0 THEN 1 ELSE b * Pow(b, k - 1)

\* how many times p divides n, n > 0
RECURSIVE Times(_, _)
Times(n, p) == IF n % p = 0 THEN 1 + Times(n \div p, p) ELSE 0

Float(n, d, e2, e5) ==
    IF n = 0 THEN [kind |-> "float", n |-> 0, d |-> 1, e2 |-> 0, e5 |-> 0]
    ELSE LET g == GCD(Abs(n), d)
             a == Abs(n) \div g
             b == d \div g
         IN  [kind |-> "float",
              n |-> Sign(n) * (a \div (Pow(2, Times(a, 2)) * Pow(5, Times(a, 5)))),
              d |-> b \div (Pow(2, Times(b, 2)) * Pow(5, Times(b, 5))),
              e2 |-> e2 + Times(a, 2) - Times(b, 2),
              e5 |-> e5 + Times(a, 5) - Times(b, 5)]

FromInt(k) == Float(k, 1, 0, 0)

\* float('inf') and float('-inf'): the sign over the denominator 0
Infinity(sign) == [kind |-> "float", n |-> sign, d |-> 0, e2 |-> 0, e5 |-> 0]

\* float('nan')
NaN == [kind |-> "float", n |-> 0, d |-> 0, e2 |-> 0, e5 |-> 0]

IsFinite(x) == x.d # 0

\* x * y, y finite and positive when x is not finite
FMul(x, y) ==
    IF ~IsFinite(x) THEN x
    ELSE Float(x.n * y.n, x.d * y.d, x.e2 + y.e2, x.e5 + y.e5)

\* x / y, y nonzero and finite
FDiv(x, y) ==
    IF ~IsFinite(x) THEN x
    ELSE Float(x.n * y.d * Sign(y.n), x.d * Abs(y.n), x.e2 - y.e2, x.e5 - y.e5)

\* the numerator of x over the denominator x.d * y.d and the common powers
Scaled(x, y) ==
    x.n * y.d * Pow(2, x.e2 - Min(x.e2, y.e2)) * Pow(5, x.e5 - Min(x.e5, y.e5))

FAdd(x, y) ==
    IF x.n = 0 THEN y
    ELSE IF y.n = 0 THEN x
    ELSE Float(Scaled(x, y) + Scaled(y, x), x.d * y.d, Min(x.e2, y.e2), Min(x.e5, y.e5))

FLess(x, y) ==
    IF x.n = 0 THEN y.n > 0
    ELSE IF y.n = 0 THEN x.n < 0
    ELSE Scaled(x, y) < Scaled(y, x)

FMax(x, y) == IF FLess(x, y) THEN y ELSE x

---------------------------------------------------------------------------
(* Strings as sequences of characters, and float(str)                       *)

DigitValue ==
    ("0" :> 0) @@ ("1" :> 1) @@ ("2" :> 2) @@ ("3" :> 3) @@ ("4" :> 4)
    @@ ("5" :> 5) @@ ("6" :> 6) @@ ("7" :> 7) @@ ("8" :> 8) @@ ("9" :> 9)

IsDigit(c) == c \in DOMAIN DigitValue

\* the characters of the quantity strings the configurations use
Spell ==
    ("0" :> <<"0">>) @@ ("4" :> <<"4">>)
    @@ ("100m" :> <<"1", "0", "0", "m">>) @@ ("250m" :> <<"2", "5", "0", "m">>)
    @@ ("500m" :> <<"5", "0", "0", "m">>) @@ ("1000m" :> <<"1", "0", "0", "0", "m">>)
    @@ ("2000m" :> <<"2", "0", "0", "0", "m">>) @@ ("4000m" :> <<"4", "0", "0", "0", "m">>)
    @@ ("128Mi" :> <<"1", "2", "8", "M", "i">>) @@ ("256Mi" :> <<"2", "5", "6", "M", "i">>)
    @@ ("512Mi" :> <<"5", "1", "2", "M", "i">>) @@ ("1Gi" :> <<"1", "G", "i">>)
    @@ ("2Gi" :> <<"2", "G", "i">>) @@ ("4Gi" :> <<"4", "G", "i">>)
    @@ ("5Gi" :> <<"5", "G", "i">>) @@ ("6Gi" :> <<"6", "G", "i">>)
    @@ ("8Gi" :> <<"8", "G", "i">>) @@ ("1" :> <<"1">>) @@ ("2" :> <<"2">>)
    @@ ("3" :> <<"3">>) @@ ("two" :> <<"t", "w", "o">>)

\* str(n) of a non-negative int
RECURSIVE DigitsOf(_)
DigitsOf(n) ==
    LET last == CHOOSE c \in DOMAIN DigitValue : DigitValue[c] = n % 10
    IN  IF n < 10 THEN <<last>> ELSE Append(DigitsOf(n \div 10), last)

\* str(x) of a value of the configuration
str(x) ==
    CASE x.kind = "str" -> Spell[x.s]
      [] x.kind = "int" -> IF x.n < 0 THEN <<"-">> \o DigitsOf(-x.n) ELSE DigitsOf(x.n)
      [] x.kind = "bool" -> IF x.b THEN <<"T", "r", "u", "e">> ELSE <<"F", "a", "l", "s", "e">>
      [] OTHER -> <<"N", "o", "n", "e">>

EndsWith(value, suffix) ==
    /\ Len(value) >= Len(suffix)
    /\ SubSeq(value, Len(value) - Len(suffix) + 1, Len(value)) = suffix

DropLast(value, k) == SubSeq(value, 1, Len(value) - k)

\* the int a string of digits spells
RECURSIVE DigitsValue(_)
DigitsValue(digits) ==
    IF digits = <<>> THEN 0
    ELSE 10 * DigitsValue(DropLast(digits, 1)) + DigitValue[digits[Len(digits)]]

\* float(s) of a body without its sign: the words inf and nan, or digits
\* with at most one decimal point; any other string raises ValueError
float_body(body, sign, digits, dots) ==
    IF body = <<"i", "n", "f">> THEN Infinity(sign)
    ELSE IF body = <<"n", "a", "n">> THEN NaN
    ELSE IF /\ Len(digits) > 0
            /\ Cardinality(dots) <= 1
            /\ Len(digits) + Cardinality(dots) = Len(body)
    THEN Float(sign * DigitsValue(digits), 1,
               -(IF dots = {} THEN 0 ELSE Len(body) - (CHOOSE i \in dots : TRUE)),
               -(IF dots = {} THEN 0 ELSE Len(body) - (CHOOSE i \in dots : TRUE)))
    ELSE Raise("ValueError")

float_signed(body, sign) ==
    float_body(body, sign, SelectSeq(body, IsDigit), {i \in DOMAIN body : body[i] = "."})

\* float(s) for strings of a sign, digits, a decimal point and letters
float(s) ==
    IF Len(s) > 0 /\ s[1] \in {"-", "+"}
    THEN float_signed(Tail(s), IF s[1] = "-" THEN -1 ELSE 1)
    ELSE float_signed(s, 1)

---------------------------------------------------------------------------
(* models.ResourceAmount                                                    *)

ResourceAmount(value, original) == [kind |-> "amount", value |-> value, original |-> original]

\* ResourceAmount(value=number, original=value), or the exception float raised
plain_amount(number, value) ==
    IF Raised(number) THEN number ELSE ResourceAmount(number, value)

\* ResourceAmount(value=number * multiplier, original=value), or the exception
scaled_amount(number, multiplier, value) ==
    IF Raised(number) THEN number ELSE ResourceAmount(FMul(number, multiplier), value)

parse_cpu_cores(value) ==
    plain_amount(float(IF EndsWith(value, <<"m">>) THEN DropLast(value, 1) ELSE value), value)

parse_cpu(value) ==
    IF EndsWith(value, <<"m">>)
    THEN plain_amount(float(DropLast(value, 1)), value)
    ELSE scaled_amount(float(value), FromInt(1000), value)

\* the float 2^e2 * 5^e5
Power(e2, e5) == [kind |-> "float", n |-> 1, d |-> 1, e2 |-> e2, e5 |-> e5]

\* units whose binary suffixes carry the decimal multipliers
MemoryUnits_decimal ==
    <<[suffix |-> <<"K", "i">>, multiplier |-> Power(3, 3)],
      [suffix |-> <<"M", "i">>, multiplier |-> Power(6, 6)],
      [suffix |-> <<"G", "i">>, multiplier |-> Power(9, 9)],
      [suffix |-> <<"T", "i">>, multiplier |-> Power(12, 12)],
      [suffix |-> <<"K">>, multiplier |-> Power(3, 3)],
      [suffix |-> <<"M">>, multiplier |-> Power(6, 6)],
      [suffix |-> <<"G">>, multiplier |-> Power(9, 9)],
      [suffix |-> <<"T">>, multiplier |-> Power(12, 12)]>>

\* the dict `units`, in its order: suffix and multiplier
MemoryUnits ==
    <<[suffix |-> <<"K", "i">>, multiplier |-> Power(10, 0)],
      [suffix |-> <<"M", "i">>, multiplier |-> Power(20, 0)],
      [suffix |-> <<"G", "i">>, multiplier |-> Power(30, 0)],
      [suffix |-> <<"T", "i">>, multiplier |-> Power(40, 0)],
      [suffix |-> <<"K">>, multiplier |-> Power(3, 3)],
      [suffix |-> <<"M">>, multiplier |-> Power(6, 6)],
      [suffix |-> <<"G">>, multiplier |-> Power(9, 9)],
      [suffix |-> <<"T">>, multiplier |-> Power(12, 12)]>>

\* the place in `units` of the first suffix value ends with, 0 when none does
matching_unit(value) ==
    LET matching == {i \in DOMAIN MemoryUnits : EndsWith(value, MemoryUnits[i].suffix)}
    IN  IF matching # {} THEN CHOOSE i \in matching : \A j \in matching : i <= j ELSE 0

\* parse_memory from the suffix found on
parse_memory_unit(value, unit) ==
    IF unit # 0
    THEN scaled_amount(float(DropLast(value, Len(MemoryUnits[unit].suffix))),
                       MemoryUnits[unit].multiplier, value)
    ELSE plain_amount(float(value), value)

parse_memory(value) == parse_memory_unit(value, matching_unit(value))

\* the limit the products of a comparison are cut at
Cap == 100000000

Positive(k) == IF k > 0 THEN k ELSE 0

\* v * p^k, or Cap once the product has reached it
RECURSIVE CapTimes(_, _, _)
CapTimes(v, p, k) ==
    IF v >= Cap THEN Cap
    ELSE IF k = 0 THEN v
    ELSE CapTimes(v * p, p, k - 1)

\* left >= right, where not both were cut at Cap
CapAtLeast(left, right) ==
    IF left = Cap /\ right = Cap THEN CHOOSE b \in {} : TRUE ELSE left >= right

\* x >= y for finite x and finite y > 0
AtLeast(x, y) ==
    /\ x.n > 0
    /\ CapAtLeast(CapTimes(CapTimes(x.n * y.d, 2, Positive(x.e2 - y.e2)),
                           5, Positive(x.e5 - y.e5)),
                  CapTimes(CapTimes(y.n * x.d, 2, Positive(y.e2 - x.e2)),
                           5, Positive(y.e5 - x.e5)))

\* <<floor, remainder>> of (q + r / D) * p^k, with 0 <= r < D
RECURSIVE ScaleUp(_, _, _, _, _)
ScaleUp(q, r, D, p, k) ==
    IF k = 0 THEN <<q, r>>
    ELSE ScaleUp(p * q + (p * r) \div D, (p * r) % D, D, p, k - 1)

\* the denominator of a finite x >= 0 written as a fraction of two ints
Denominator(x) == x.d * Pow(2, Positive(-x.e2)) * Pow(5, Positive(-x.e5))

FloorBy5(x, D, by2) == ScaleUp(by2[1], by2[2], D, 5, Positive(x.e5))

FloorOver(x, D) == FloorBy5(x, D, ScaleUp(x.n \div D, x.n % D, D, 2, Positive(x.e2)))

\* <<floor(x), remainder, denominator>> of a finite x >= 0
FloorRem(x) == FloorOver(x, Denominator(x)) \o <<Denominator(x)>>

\* int(x) of a finite float: truncation towards zero
int_float(x) ==
    IF x.n < 0 THEN -(FloorRem(FMul(x, FromInt(-1)))[1]) ELSE FloorRem(x)[1]

\* str(n) of an int
int_text(n) == IF n < 0 THEN <<"-">> \o DigitsOf(-n) ELSE DigitsOf(n)

\* x * 100 rounded to an int: fr is FloorRem(x * 100); a value midway
\* between two ints goes the way the binary double nearest to x lies
Rounded(fr, tie) ==
    IF 2 * fr[2] > fr[3] \/ (2 * fr[2] = fr[3] /\ tie = "up") THEN fr[1] + 1 ELSE fr[1]

TwoDecimals(hundredths) ==
    DigitsOf(hundredths \div 100)
    \o <<".">> \o DigitsOf((hundredths % 100) \div 10) \o DigitsOf(hundredths % 10)

\* a str the formatting returns
Text(chars) == [kind |-> "text", chars |-> chars]

\* f"{x:.2f}" of a float x >= 0
Format2f(x, tie) ==
    IF ~IsFinite(x) THEN Text(IF x.n = 0 THEN <<"n", "a", "n">> ELSE <<"i", "n", "f">>)
    ELSE Text(TwoDecimals(Rounded(FloorRem(FMul(x, FromInt(100))), tie)))

\* f"{int(x)}": int() of inf raises OverflowError, of nan ValueError
FormatInt(x) ==
    IF ~IsFinite(x) THEN Raise(IF x.n = 0 THEN "ValueError" ELSE "OverflowError")
    ELSE Text(int_text(int_float(x)))

\* self.value < bound, as Python compares floats: nan is below nothing
Below(x, bound) ==
    IF ~IsFinite(x) THEN x.n < 0 ELSE ~AtLeast(x, bound)

Suffixed(text, suffix) == IF Raised(text) THEN text ELSE Text(text.chars \o suffix)

format_cpu(amount, tie) ==
    IF Below(amount.value, FromInt(1000))
    THEN Suffixed(FormatInt(amount.value), <<"m">>)
    ELSE Format2f(FDiv(amount.value, FromInt(1000)), tie)

\* self.value >= bound
NotBelow(x, bound) ==
    IF ~IsFinite(x) THEN x.n > 0 ELSE AtLeast(x, bound)

format_memory(amount, tie) ==
    IF NotBelow(amount.value, Power(30, 0))
    THEN Suffixed(Format2f(FDiv(amount.value, Power(30, 0)), tie), <<"G", "i">>)
    ELSE IF NotBelow(amount.value, Power(20, 0))
    THEN Suffixed(Format2f(FDiv(amount.value, Power(20, 0)), tie), <<"M", "i">>)
    ELSE IF NotBelow(amount.value, Power(10, 0))
    THEN Suffixed(Format2f(FDiv(amount.value, Power(10, 0)), tie), <<"K", "i">>)
    ELSE FormatInt(amount.value)

---------------------------------------------------------------------------
(* capacity_planner.CapacityPlanner                                         *)

\* int(x) of a value of the configuration
int_of(x) ==
    CASE x.kind = "int" -> x
      [] x.kind = "bool" -> Num(IF x.b THEN 1 ELSE 0)
      [] x.kind = "str" /\ x.s \in DecimalStrings -> Num(DigitsValue(Spell[x.s]))
      [] OTHER -> Raise("ValueError")

NodeCapacity(cpu, memory, node_type, count, disk) ==
    IF Raised(count) THEN count
    ELSE IF Raised(cpu) THEN cpu
    ELSE IF Raised(memory) THEN memory
    ELSE IF Raised(disk) THEN disk
    ELSE [kind |-> "node", cpu |-> cpu, memory |-> memory, node_type |-> node_type,
          count |-> count.n, disk |-> disk]

get_node_capacity_tableFirst(plat, node_selector, apps_config) ==
    LET nodes_cfg == Get(apps_config, "nodes", <<>>)
        node_cfg == IF node_selector \in Keys(nodes_cfg)
               THEN nodes_cfg[Item(nodes_cfg, node_selector)].config ELSE EmptyMap
        capacity == Get(Get(plat.nodeSelectors, node_selector, EmptyDict), "capacity", EmptyDict)
    IN  IF DOMAIN capacity # {}
        THEN NodeCapacity(parse_cpu(Spell[Get(capacity, "cpu", "4000m")]),
                          parse_memory(Spell[Get(capacity, "memory", "8Gi")]),
                          node_selector, Num(Get(capacity, "count", 1)), Null)
        ELSE IF Truthy(node_cfg)
        THEN LET cpu_val == Get(node_cfg.m, "cpu", Get(node_cfg.m, "cores", Null))
                 mem_val == Get(node_cfg.m, "memory", Get(node_cfg.m, "mem", Null))
             IN  NodeCapacity(
                    IF cpu_val.kind # "null" THEN parse_cpu(str(cpu_val)) ELSE parse_cpu(Spell["4000m"]),
                    IF mem_val.kind # "null" THEN parse_memory(str(mem_val)) ELSE parse_memory(Spell["8Gi"]),
                    node_selector, int_of(Get(node_cfg.m, "count", Num(1))), Null)
        ELSE NodeCapacity(parse_cpu(Spell["4000m"]), parse_memory(Spell["8Gi"]),
                          node_selector, Num(1), Null)

get_node_capacity(plat, node_selector, apps_config) ==
    LET nodes_cfg == Get(apps_config, "nodes", <<>>)
        node_cfg == IF node_selector \in Keys(nodes_cfg)
               THEN nodes_cfg[Item(nodes_cfg, node_selector)].config ELSE EmptyMap
    IN  IF Truthy(node_cfg)
        THEN IF node_cfg.kind # "map" THEN Raise("AttributeError")
             ELSE LET cpu_val == Get(node_cfg.m, "cpu", Get(node_cfg.m, "cores", Null))
                      mem_val == Get(node_cfg.m, "memory", Get(node_cfg.m, "mem", Null))
                      disk_val == Get(node_cfg.m, "disk", Null)
                      count == int_of(Get(node_cfg.m, "count", Num(1)))
                  IN  NodeCapacity(
                        IF cpu_val.kind # "null" THEN parse_cpu(str(cpu_val))
                        ELSE parse_cpu(Spell["4000m"]),
                        IF mem_val.kind # "null" THEN parse_memory(str(mem_val))
                        ELSE parse_memory(Spell["8Gi"]),
                        node_selector, count,
                        IF disk_val.kind # "null" THEN parse_memory(str(disk_val)) ELSE Null)
        ELSE LET node_config == Get(plat.nodeSelectors, node_selector, EmptyDict)
                 capacity == Get(node_config, "capacity", EmptyDict)
             IN  IF DOMAIN capacity = {}
                 THEN NodeCapacity(parse_cpu(Spell["4000m"]), parse_memory(Spell["8Gi"]),
                                   node_selector, Num(1), Null)
                 ELSE NodeCapacity(parse_cpu(Spell[Get(capacity, "cpu", "4000m")]),
                                   parse_memory(Spell[Get(capacity, "memory", "8Gi")]),
                                   node_selector, Num(Get(capacity, "count", 1)), Null)

\* the profile an app gets when it names none that the platform knows
DefaultMinimalResources ==
    [cpu |-> [requests |-> "100m", limits |-> "500m"],
     memory |-> [requests |-> "128Mi", limits |-> "512Mi"]]

\* the AppResources get_app_resources returns, given the four quantities parsed
app_resources(app_name, app_config, defaults, cpu_request, cpu_limit, memory_request, memory_limit) ==
    IF Raised(cpu_request) THEN cpu_request
    ELSE IF Raised(cpu_limit) THEN cpu_limit
    ELSE IF Raised(memory_request) THEN memory_request
    ELSE IF Raised(memory_limit) THEN memory_limit
    ELSE [kind |-> "app",
          app_name |-> app_name,
          namespace |-> Get(app_config, "namespace", "default"),
          node_selector |-> Get(app_config, "nodeSelector",
                                Get(defaults, "nodeSelector", "default")),
          replicas |-> 1,
          resources |-> [cpu_request |-> cpu_request, cpu_limit |-> cpu_limit,
                         memory_request |-> memory_request,
                         memory_limit |-> memory_limit]]

\* get_app_resources from the profile found on
profile_resources(app_name, app_config, defaults, profile) ==
    app_resources(app_name, app_config, defaults,
                  parse_cpu(Spell[profile["cpu"]["requests"]]),
                  parse_cpu(Spell[profile["cpu"]["limits"]]),
                  parse_memory(Spell[profile["memory"]["requests"]]),
                  parse_memory(Spell[profile["memory"]["limits"]]))

\* the resource profile of that name, or the default minimal resources
profile_or_default(plat, profile_name) ==
    LET found == Get(plat.resourceProfiles, profile_name, EmptyDict)
    IN  IF DOMAIN found = {} THEN DefaultMinimalResources ELSE found

get_app_resources(plat, app_name, app_config, cluster_config) ==
    profile_resources(app_name, app_config, Get(cluster_config, "defaults", EmptyDict),
        profile_or_default(plat,
            Get(app_config, "profile",
                Get(Get(cluster_config, "defaults", EmptyDict), "profile", NoneStr))))

\* get_app_resources of every app of the document, in the document's order
all_app_resources(plat, config) ==
    [i \in DOMAIN Get(config, "apps", <<>>) |->
        get_app_resources(plat, config.apps[i].name, config.apps[i].config,
                          Get(config, "cluster", EmptyDict))]

\* the grouping loop over resources from app i on: acc is apps_by_node
RECURSIVE group_by_node(_, _, _)
group_by_node(resources, i, acc) ==
    IF i > Len(resources) THEN acc
    ELSE group_by_node(resources, i + 1,
            Put(acc, resources[i].node_selector,
                Append(Get(acc, resources[i].node_selector, <<>>), resources[i])))

apps_by_node(plat, config) == group_by_node(all_app_resources(plat, config), 1, EmptyDict)

\* sum(quantity(app) for app in apps_list), from app i on
RECURSIVE SumOver(_, _, _)
SumOver(apps_list, quantity, i) ==
    IF i > Len(apps_list) THEN FromInt(0)
    ELSE FAdd(apps_list[i].resources[quantity].value, SumOver(apps_list, quantity, i + 1))

percentage_unguarded(total, total_capacity) ==
    IF total_capacity.n # 0 THEN FMul(FDiv(total, total_capacity), FromInt(100))
    ELSE Raise("ZeroDivisionError")

percentage(total, total_capacity) ==
    IF total_capacity.n # 0 THEN FMul(FDiv(total, total_capacity), FromInt(100))
    ELSE FromInt(0)

effective_replicas_byCount(capacity) == capacity.count

effective_replicas_single(capacity) == 1

effective_replicas(capacity) == IF capacity.count > 1 THEN capacity.count ELSE 1

\* the body of the loop over the node groups
group_analysis(capacity, apps_list) ==
    LET total(quantity) ==
            FMul(SumOver(apps_list, quantity, 1), FromInt(effective_replicas(capacity)))
        total_cpu_capacity == FMul(capacity.cpu.value, FromInt(effective_replicas(capacity)))
        total_memory_capacity == FMul(capacity.memory.value, FromInt(effective_replicas(capacity)))
    IN  [capacity |-> capacity,
         apps |-> apps_list,
         usage |-> [cpu_request |-> total("cpu_request"),
                    cpu_limit |-> total("cpu_limit"),
                    memory_request |-> total("memory_request"),
                    memory_limit |-> total("memory_limit"),
                    total_cpu_capacity |-> total_cpu_capacity,
                    total_memory_capacity |-> total_memory_capacity],
         percentages |->
            [cpu_request |-> percentage(total("cpu_request"), total_cpu_capacity),
             cpu_limit |-> percentage(total("cpu_limit"), total_cpu_capacity),
             memory_request |-> percentage(total("memory_request"), total_memory_capacity),
             memory_limit |-> percentage(total("memory_limit"), total_memory_capacity)]]

\* the loop over the node groups, given the capacity of each
analysis_of_groups(groups, capacity) ==
    IF \E n \in DOMAIN groups : Raised(capacity[n])
    THEN capacity[CHOOSE n \in DOMAIN groups : Raised(capacity[n])]
    ELSE [kind |-> "analysis",
          groups |-> [n \in DOMAIN groups |-> group_analysis(capacity[n], groups[n])]]

\* the first exception among the results, in their order
first_raised(results) ==
    results[CHOOSE i \in DOMAIN results :
                /\ Raised(results[i])
                /\ \A j \in DOMAIN results : Raised(results[j]) => i <= j]

\* analyze_capacity once get_app_resources has run on every app
analysis_of_resources(plat, apps_config, resources, groups) ==
    IF \E i \in DOMAIN resources : Raised(resources[i]) THEN first_raised(resources)
    ELSE analysis_of_groups(groups,
            [n \in DOMAIN groups |-> get_node_capacity(plat, n, apps_config)])

\* analyze_capacity: the analysis by node selector, or the exception raised
analyze_capacity(plat, apps_config) ==
    analysis_of_resources(plat, apps_config, all_app_resources(plat, apps_config),
                          apps_by_node(plat, apps_config))

Hundred == FromInt(100)

Eighty == FromInt(80)

capacity_status_withLimits(percentages) ==
    LET m == FMax(FMax(percentages.cpu_request, percentages.memory_request),
                  FMax(percentages.cpu_limit, percentages.memory_limit))
    IN  IF FLess(Hundred, m) THEN "over"
        ELSE IF FLess(Eighty, m) THEN "near"
        ELSE "available"

\* the status line print_capacity_analysis prints for a node group
capacity_status(percentages) ==
    LET max_request_pct == FMax(percentages.cpu_request, percentages.memory_request)
    IN  IF FLess(Hundred, max_request_pct) THEN "over"
        ELSE IF FLess(Eighty, max_request_pct) THEN "near"
        ELSE "available"

\* print_capacity_analysis: the status printed for each node group
print_capacity_analysis(an) ==
    [n \in DOMAIN an.groups |-> capacity_status(an.groups[n].percentages)]

---------------------------------------------------------------------------
(* The documents and stores the reconciliation cycle is run on             *)

MaxApps == 2

ClusterConfig == [name |-> "firefly", domain |-> "example.com",
                  defaults |-> [profile |-> "c.small"]]

NodesConfig == <<[name |-> "pi",
                  config |-> Map([count |-> Num(2), cpu |-> Num(4), mem |-> Str("8Gi")])]>>

\* a networkTypes override of the document: a network type that pins its
\* pods with a nodeSelector of its own
NetworkTypesOverride ==
    [pinned |-> [service |-> [type |-> "ClusterIP"],
                 podOptions |-> Map([nodeSelector |-> Map([zone |-> Str("a")])])]]

\* the declarations an app of the document may have
AppDecls ==
    [web |-> {[image |-> <<"nginx", "1.25">>, nodeSelector |-> "pi"],
              [image |-> <<"nginx">>, network |-> "host", ingress |-> FALSE],
              [profile |-> "bogus"]},
     db |-> {[image |-> <<"redis", "7">>, nodeSelector |-> "pi", network |-> "pinned"],
             [image |-> <<"redis", "7">>, network |-> "mesh"]},
     api |-> {[image |-> <<"api">>, ports |-> <<[name |-> "http", port |-> 8080]>>]}]

\* sequences of at most MaxApps distinct names
NameSeqs ==
    {q \in UNION {[1..n -> DOMAIN AppDecls] : n \in 0..MaxApps} :
        \A i, j \in DOMAIN q : i # j => q[i] # q[j]}

AppsOf(names) ==
    {apps \in [DOMAIN names -> UNION {[name : {n}, config : AppDecls[n]] : n \in DOMAIN AppDecls}] :
        \A i \in DOMAIN names : apps[i].name = names[i]}

Document(apps) ==
    [apps |-> apps, cluster |-> ClusterConfig, nodes |-> NodesConfig,
     networkTypes |-> NetworkTypesOverride]

Documents == {Document(apps) : apps \in UNION {AppsOf(names) : names \in NameSeqs}}

\* the manifest an earlier apply wrote for one app
WrittenFrom(app_name, app_config, plat, t) ==
    yaml_dump(generator_helm_release(app_name, app_config, t.values, plat.helmChart),
              t.platform)

WrittenWith(app_name, app_config, plat) ==
    WrittenFrom(app_name, app_config, plat,
                translate_app(plat, app_name, app_config, ClusterConfig))

WrittenDoc(app_name, app_config) == WrittenWith(app_name, app_config, load(Document(<<>>)))

StoredDocs ==
    [web |-> {WrittenDoc("web", [image |-> <<"nginx", "1.25">>, nodeSelector |-> "pi"]),
              WrittenDoc("web", [image |-> <<"nginx">>, network |-> "host", ingress |-> FALSE])},
     db |-> {WrittenDoc("db", [image |-> <<"redis", "7">>, nodeSelector |-> "pi", network |-> "pinned"])},
     old |-> {WrittenDoc("old", [image |-> <<"nginx">>])}]

StoresOf(docs) ==
    UNION {{st \in [names -> UNION {docs[n] : n \in DOMAIN docs}] :
                \A n \in names : st[n] \in docs[n]} : names \in SUBSET DOMAIN docs}

Stores == StoresOf(StoredDocs)

---------------------------------------------------------------------------
(* core.Maniforge: the plan and apply commands, step by step               *)

Resting == {"idle", "done", "aborted", "crashed"}

Apps == Get(cfg, "apps", <<>>)

Init ==
    /\ pc = "idle" /\ mode = "none"
    /\ cfg \in Documents
    /\ platform = load(cfg)
    /\ store \in Stores
    /\ store0 = store
    /\ errors = <<>> /\ current = EmptyDict /\ desired = EmptyDict
    /\ changes = <<>> /\ translated = <<>> /\ written = <<>>
    /\ analysis = Null /\ prev = "none"
    /\ arg = Null /\ ret = Null

\* how the run that ends now is remembered by the next one
Ended == IF pc = "done" THEN mode ELSE IF pc = "idle" THEN "none" ELSE pc

\* the first lines of plan and of apply: validate, and exit on any error
Start(m) ==
    /\ pc \in Resting
    /\ mode' = m
    /\ prev' = Ended
    /\ errors' = validation_errors(cfg, platform)
    /\ pc' = IF validate(errors') THEN m \o "_begin" ELSE "aborted"
    /\ store0' = store
    /\ current' = EmptyDict /\ desired' = EmptyDict /\ changes' = <<>>
    /\ translated' = <<>> /\ written' = <<>> /\ analysis' = Null /\ ret' = Null
    /\ UNCHANGED <<cfg, platform, store, arg>>

StartPlan == Start("plan")

StartApply == Start("apply")

\* load_config in a new process
LoadConfig ==
    /\ pc \in Resting
    /\ platform' = load(cfg)
    /\ UNCHANGED <<pc, mode, cfg, store, errors, current, desired, changes,
                   translated, written, analysis, prev, store0, arg, ret>>

\* differ.load_current_state
PlanLoadCurrent ==
    /\ pc = "plan_begin"
    /\ current' = store
    /\ pc' = "plan_desired"
    /\ UNCHANGED <<mode, cfg, platform, store, errors, desired, changes,
                   translated, written, analysis, prev, store0, arg, ret>>

\* one iteration of the loop of differ.load_desired_state
PlanTranslate ==
    /\ pc = "plan_desired"
    /\ Len(translated) < Len(Apps)
    /\ LET app == Apps[Len(translated) + 1]
           t == translate_app(platform, app.name, app.config, Get(cfg, "cluster", EmptyDict))
       IN  IF Raised(t.values)
           THEN /\ pc' = "crashed"
                /\ UNCHANGED <<platform, desired, translated>>
           ELSE /\ pc' = pc
                /\ platform' = t.platform
                /\ desired' = Put(desired, app.name,
                                  build_helm_release(app.name, app.config, t.values,
                                                     Get(platform, "helmChart", EmptyDict)))
                /\ translated' = Append(translated, app.name)
    /\ UNCHANGED <<mode, cfg, store, errors, current, changes, written,
                   analysis, prev, store0, arg, ret>>

\* a get_changes that takes what it reports out of the loaded current state
PlanGetChanges_popping ==
    /\ pc = "plan_desired"
    /\ Len(translated) = Len(Apps)
    /\ changes' = get_changes(current, desired, translated, platform)
    /\ current' = [n \in {m \in DOMAIN current :
                            \A i \in DOMAIN changes' : changes'[i].app # m} |-> current[n]]
    /\ pc' = "plan_capacity"
    /\ UNCHANGED <<mode, cfg, platform, store, errors, desired,
                   translated, written, analysis, prev, store0, arg, ret>>

\* differ.get_changes
PlanGetChanges ==
    /\ pc = "plan_desired"
    /\ Len(translated) = Len(Apps)
    /\ changes' = get_changes(current, desired, translated, platform)
    /\ pc' = "plan_capacity"
    /\ UNCHANGED <<mode, cfg, platform, store, errors, current, desired,
                   translated, written, analysis, prev, store0, arg, ret>>

\* the capacity analysis, and the value plan returns
PlanCapacity ==
    /\ pc = "plan_capacity"
    /\ analysis' = analyze_capacity(platform, cfg)
    /\ ret' = Bool(Len(changes) > 0)
    /\ pc' = "done"
    /\ UNCHANGED <<mode, cfg, platform, store, errors, current, desired, changes,
                   translated, written, prev, store0, arg>>

\* a generate that empties the output directory before its first write
ApplyGenerate_clearing ==
    /\ pc = "apply_begin"
    /\ Len(translated) < Len(Apps)
    /\ LET app == Apps[Len(translated) + 1]
           t == translate_app(platform, app.name, app.config, Get(cfg, "cluster", EmptyDict))
       IN  IF Raised(t.values)
           THEN /\ pc' = "crashed"
                /\ UNCHANGED <<platform, store, translated, written>>
           ELSE /\ pc' = pc
                /\ platform' = t.platform
                /\ store' = Put(IF Len(translated) = 0 THEN EmptyDict ELSE store, app.name,
                                yaml_dump(generator_helm_release(app.name, app.config, t.values,
                                              Get(platform, "helmChart", EmptyDict)),
                                          t.platform))
                /\ translated' = Append(translated, app.name)
                /\ written' = Append(written, app.name)
    /\ UNCHANGED <<mode, cfg, errors, current, desired, changes,
                   analysis, prev, store0, arg, ret>>

\* one iteration of the loop of generator.generate: translate, then write
ApplyGenerate ==
    /\ pc = "apply_begin"
    /\ Len(translated) < Len(Apps)
    /\ LET app == Apps[Len(translated) + 1]
           t == translate_app(platform, app.name, app.config, Get(cfg, "cluster", EmptyDict))
       IN  IF Raised(t.values)
           THEN /\ pc' = "crashed"
                /\ UNCHANGED <<platform, store, translated, written>>
           ELSE /\ pc' = pc
                /\ platform' = t.platform
                /\ store' = Put(store, app.name,
                                yaml_dump(generator_helm_release(app.name, app.config, t.values,
                                              Get(platform, "helmChart", EmptyDict)),
                                          t.platform))
                /\ translated' = Append(translated, app.name)
                /\ written' = Append(written, app.name)
    /\ UNCHANGED <<mode, cfg, errors, current, desired, changes,
                   analysis, prev, store0, arg, ret>>

ApplyFinish ==
    /\ pc = "apply_begin"
    /\ Len(translated) = Len(Apps)
    /\ pc' = "done"
    /\ UNCHANGED <<mode, cfg, platform, store, errors, current, desired, changes,
                   translated, written, analysis, prev, store0, arg, ret>>

Next ==
    \/ StartPlan
    \/ StartApply
    \/ LoadConfig
    \/ PlanLoadCurrent
    \/ PlanTranslate
    \/ PlanGetChanges
    \/ PlanCapacity
    \/ ApplyGenerate
    \/ ApplyFinish

Spec == Init /\ [][Next]_vars


---------------------------------------------------------------------------
(* Properties of the differ, checked under Spec                            *)

\* get_changes has just returned
Diffed == pc = "plan_capacity"

\* the change records of one app with one action
Records(app_name, action) ==
    {i \in DOMAIN changes : changes[i].app = app_name /\ changes[i].action = action}

RecordsOf(app_name) == {i \in DOMAIN changes : changes[i].app = app_name}

\* the two manifests of an app are structurally equal
SameManifest(app_name) == current[app_name] = Deref(desired[app_name], platform)

\* C1: get_changes emits exactly one Create for each app-id only in desired,
\* exactly one Delete for each app-id only in current, and no record for an
\* app-id in both whose manifests are structurally equal.
C1_SymmetricComplete ==
    Diffed =>
        \A a \in DOMAIN current \cup DOMAIN desired :
            /\ (a \in DOMAIN desired /\ a \notin DOMAIN current)
                    => Cardinality(Records(a, "create")) = 1
            /\ (a \in DOMAIN current /\ a \notin DOMAIN desired)
                    => Cardinality(Records(a, "delete")) = 1
            /\ (a \in DOMAIN current /\ a \in DOMAIN desired /\ SameManifest(a))
                    => RecordsOf(a) = {}

C1_Witness ==
    /\ Diffed
    /\ \E a \in DOMAIN desired : a \notin DOMAIN current /\ Records(a, "create") # {}
    /\ \E a \in DOMAIN current : a \notin DOMAIN desired /\ Records(a, "delete") # {}
    /\ \E a \in DOMAIN current \cap DOMAIN desired : SameManifest(a) /\ RecordsOf(a) = {}

\* C2: for an app-id in both states an Update is emitted if and only if the
\* manifests are not structurally equal; an Update never names an app-id
\* missing from either side.
C2_UpdateIffDifferent ==
    Diffed =>
        /\ \A a \in DOMAIN current \cap DOMAIN desired :
                (Records(a, "update") # {}) <=> ~SameManifest(a)
        /\ \A i \in DOMAIN changes :
                changes[i].action = "update"
                    => changes[i].app \in DOMAIN current \cap DOMAIN desired

C2_Witness ==
    /\ Diffed
    /\ \E a \in DOMAIN current \cap DOMAIN desired :
            ~SameManifest(a) /\ Records(a, "update") # {}
    /\ \E a \in DOMAIN current \cap DOMAIN desired :
            SameManifest(a) /\ Records(a, "update") = {}

\* C3: a Create record has before = null and after = the desired manifest; a
\* Delete record has after = null and before = the current manifest; an
\* Update record has before = the current and after = the desired manifest.
C3_RecordShape ==
    Diffed =>
        \A i \in DOMAIN changes :
            LET c == changes[i]
            IN  /\ c.action \in {"create", "delete", "update"}
                /\ c.action = "create" =>
                        c.before = Null /\ c.app \in DOMAIN desired /\ c.after = desired[c.app]
                /\ c.action = "delete" =>
                        c.after = Null /\ c.app \in DOMAIN current /\ c.before = current[c.app]
                /\ c.action = "update" =>
                        /\ c.app \in DOMAIN current \cap DOMAIN desired
                        /\ c.before = current[c.app] /\ c.after = desired[c.app]
                        /\ c.before # Null /\ c.after # Null

C3_Witness ==
    /\ Diffed
    /\ \A action \in {"create", "delete", "update"} :
            \E i \in DOMAIN changes : changes[i].action = action

\* C4: every app-id is referenced by at most one change record; an app in
\* current but absent from the desired config has exactly one Delete record
\* and no Create or Update record.
C4_OneRecordPerApp ==
    Diffed =>
        /\ \A a \in DOMAIN current \cup DOMAIN desired : Cardinality(RecordsOf(a)) <= 1
        /\ \A a \in DOMAIN current :
                a \notin DOMAIN desired =>
                    /\ Cardinality(Records(a, "delete")) = 1
                    /\ Records(a, "create") = {} /\ Records(a, "update") = {}

C4_Witness ==
    /\ Diffed
    /\ "old" \in DOMAIN current /\ "old" \notin DOMAIN desired
    /\ Cardinality(RecordsOf("old")) = 1
    /\ \E a \in DOMAIN desired : Records(a, "create") # {}

---------------------------------------------------------------------------
(* Properties of the plan/apply cycle, checked under Spec                  *)

\* C5: after an apply cycle has completed, an immediately following plan over
\* the same config reports no changes and returns false.
C5_Converges ==
    (pc = "done" /\ mode = "plan" /\ prev = "apply")
        => changes = <<>> /\ ret = Bool(FALSE)

\* C6: when validate reports an error the run aborts before any app is
\* translated, any diff computed, the capacity analysis run or any manifest
\* written, and the store is as the run found it.
C6_ValidationGates ==
    errors # <<>> =>
        /\ pc = "aborted"
        /\ translated = <<>> /\ desired = EmptyDict /\ current = EmptyDict
        /\ changes = <<>> /\ analysis = Null
        /\ written = <<>> /\ store = store0

C6_Witness ==
    /\ pc = "aborted" /\ mode = "apply" /\ prev = "aborted"
    /\ Len(errors) > 1
    /\ store # EmptyDict

\* the manifest of one app of the document, translated on its own from the
\* platform config as loaded
AloneManifest(app) ==
    LET t == translate_app(load(cfg), app.name, app.config, Get(cfg, "cluster", EmptyDict))
    IN  Deref(build_helm_release(app.name, app.config, t.values, load(cfg).helmChart),
              t.platform)

\* C8: translate_app never changes the platform config, so the manifest of an
\* app is the same whatever apps were translated before it.
C8_PlatformReadOnly ==
    /\ platform = load(cfg)
    /\ \A i \in DOMAIN Apps :
            Apps[i].name \in DOMAIN desired
                => Deref(desired[Apps[i].name], platform) = AloneManifest(Apps[i])


---------------------------------------------------------------------------
(* Pure-function specification of validate                                 *)

\* the partial declarations with at most the one key, and their combinations
Opt(key, values) == {EmptyDict} \cup {key :> v : v \in values}
Combine(S, T) == {a @@ b : a \in S, b \in T}

ValAppDecls ==
    [web |-> Combine(Combine(Opt("image", {<<"nginx">>}), Opt("profile", {"c.small", "bogus"})),
                     Combine(Opt("network", {"mesh"}), Opt("nodeSelector", {"pi", "ghost"}))),
     db |-> Combine(Opt("image", {<<"redis", "7">>}), Opt("nodeSelector", {"ghost"})),
     api |-> Combine({"image" :> <<"api">>}, Opt("profile", {"bogus"}))]

ValApps ==
    UNION {{apps \in [DOMAIN names -> UNION {[name : {n}, config : ValAppDecls[n]] : n \in DOMAIN ValAppDecls}] :
                \A i \in DOMAIN names : apps[i].name = names[i]} : names \in NameSeqs}

ValNodes ==
    {<<>>,
     <<[name |-> "pi", config |-> Map([count |-> Num(2), cpu |-> Num(4), mem |-> Str("8Gi")])]>>,
     <<[name |-> "pi", config |-> Num(4)]>>,
     <<[name |-> "pi", config |-> Map([count |-> Str("many"), cores |-> Num(4)])]>>,
     <<[name |-> "pi", config |-> Map([count |-> Str("2")])]>>,
     <<[name |-> "pi", config |-> Map([count |-> Str("many")])]>>,
     <<[name |-> "pi", config |-> Num(4)],
       [name |-> "gpu", config |-> Map([count |-> Str("many")])]>>}

ValClusters ==
    {[name |-> "firefly"],
     [name |-> "firefly", defaults |-> [profile |-> "c.small", nodeSelector |-> "pi"]],
     [name |-> "firefly", defaults |-> [profile |-> "bogus", nodeSelector |-> "ghost"]]}

ValDocuments ==
    {[apps |-> apps, cluster |-> cluster, nodes |-> nodes] :
        apps \in ValApps, cluster \in ValClusters, nodes \in ValNodes}

InitValidate ==
    /\ pc = "call" /\ mode = "none"
    /\ cfg \in ValDocuments
    /\ platform = load(cfg)
    /\ store = EmptyDict /\ store0 = EmptyDict
    /\ errors = <<>> /\ current = EmptyDict /\ desired = EmptyDict
    /\ changes = <<>> /\ translated = <<>> /\ written = <<>>
    /\ analysis = Null /\ prev = "none"
    /\ arg = Null /\ ret = Null

\* Maniforge.validate
Validate ==
    /\ pc = "call"
    /\ errors' = validation_errors(cfg, platform)
    /\ ret' = Bool(validate(errors'))
    /\ pc' = "returned"
    /\ UNCHANGED <<mode, cfg, platform, store, current, desired, changes,
                   translated, written, analysis, prev, store0, arg>>

NextValidate == Validate

SpecValidate == InitValidate /\ [][NextValidate]_vars

\* what a document declares, read off the document itself
KnownProfiles(doc) ==
    {"c.pico", "c.small", "r.large"} \cup DOMAIN Get(doc, "resourceProfiles", EmptyDict)
KnownNetworks(doc) ==
    {"clusterip", "nodeport", "loadbalancer", "host"} \cup DOMAIN Get(doc, "networkTypes", EmptyDict)
KnownSelectors(doc) ==
    DOMAIN Get(doc, "nodeSelectors", EmptyDict) \cup Keys(Get(doc, "nodes", <<>>))

\* every violation of a document: [item, error]
Violations(doc) ==
    LET apps == Get(doc, "apps", <<>>)
        nodes == Get(doc, "nodes", <<>>)
        defaults == Get(Get(doc, "cluster", EmptyDict), "defaults", EmptyDict)
        Effective(d, key) == Get(d, key, Get(defaults, key, NoneStr))
        V(name, e) == [item |-> name, error |-> e]
    IN  {V(apps[i].name, "missing image") :
            i \in {j \in DOMAIN apps : "image" \notin DOMAIN apps[j].config}}
        \cup {V(apps[i].name, "unknown profile") :
            i \in {j \in DOMAIN apps :
                    /\ Effective(apps[j].config, "profile") \notin {NoneStr, ""}
                    /\ Effective(apps[j].config, "profile") \notin KnownProfiles(doc)}}
        \cup {V(apps[i].name, "unknown network type") :
            i \in {j \in DOMAIN apps :
                    Get(apps[j].config, "network", "clusterip") \notin KnownNetworks(doc)}}
        \cup {V(apps[i].name, "unknown nodeSelector") :
            i \in {j \in DOMAIN apps :
                    /\ Effective(apps[j].config, "nodeSelector") \notin {NoneStr, ""}
                    /\ Effective(apps[j].config, "nodeSelector") \notin KnownSelectors(doc)}}
        \cup {V(nodes[i].name, "must be a mapping") :
            i \in {j \in DOMAIN nodes : nodes[j].config.kind # "map"}}
        \cup {V(nodes[i].name, "count must be an integer") :
            i \in {j \in DOMAIN nodes :
                    /\ nodes[j].config.kind = "map"
                    /\ "count" \in DOMAIN nodes[j].config.m
                    /\ ~IntLike(nodes[j].config.m["count"])}}
        \cup {V(nodes[i].name, "specify cpu and memory") :
            i \in {j \in DOMAIN nodes :
                    /\ nodes[j].config.kind = "map"
                    /\ \A k \in {"cpu", "cores", "memory", "mem"} : k \notin DOMAIN nodes[j].config.m}}

\* C7: validate examines every app and every node group, the batch holds
\* exactly one error for each violation of the document, and validate returns
\* false if and only if the batch is non-empty.
C7_ValidationCollects ==
    pc = "returned" =>
        /\ \A v \in Violations(cfg) : Cardinality({i \in DOMAIN errors : errors[i] = v}) = 1
        /\ \A i \in DOMAIN errors : errors[i] \in Violations(cfg)
        /\ (ret = Bool(FALSE)) <=> (errors # <<>>)

C7_Witness ==
    /\ pc = "returned" /\ ret = Bool(FALSE)
    /\ \E i, j, k, l \in DOMAIN errors :
            /\ i < j /\ j < k /\ k < l
            /\ errors[i].item = "web" /\ errors[j].item = "db"
            /\ errors[k].item = "pi" /\ errors[l].item = "gpu"


---------------------------------------------------------------------------
(* Pure-function specification of translate_app                            *)

\* networkTypes overrides: a type whose pod options carry a nodeSelector map,
\* and one whose pod options carry a scalar nodeSelector
TransNetworkTypes ==
    [pinned |-> [service |-> [type |-> "ClusterIP"],
                 podOptions |-> Map([nodeSelector |-> Map([zone |-> Str("a")])])],
     labelled |-> [service |-> [type |-> "LoadBalancer"],
                   podOptions |-> Map([nodeSelector |-> Str("any"),
                                       hostNetwork |-> Bool(TRUE)])]]

TransPorts ==
    {<<[port |-> 80]>>,
     <<[name |-> "http", port |-> 80, targetPort |-> 8080, nodePort |-> 30080],
       [port |-> 443, protocol |-> "UDP"]>>,
     <<[name |-> "dns", port |-> 53], [name |-> "dns", port |-> 5353]>>}

TransStorage ==
    {[data |-> [type |-> "hostPath", mount |-> "/data", path |-> "/srv/data"]],
     [data |-> [type |-> "persistentVolumeClaim", mount |-> "/data", size |-> "1Gi"],
      media |-> [type |-> "nfs", mount |-> "/media", server |-> "nas", path |-> "/export",
                 readonly |-> TRUE]]}

TransAppDecls ==
    Combine(Combine(Combine({"image" :> <<"nginx">>, "image" :> <<"reg", "5000/nginx", "1.25">>},
                            Opt("profile", {"r.large"})),
                    Combine(Opt("nodeSelector", {"pi"}),
                            Opt("network", {"host", "nodeport", "pinned", "labelled"}))),
            Combine(Combine(Opt("ports", TransPorts), Opt("storage", TransStorage)),
                    Opt("ingress", {FALSE, TRUE})))

TransClusters ==
    {[name |-> "firefly"],
     [name |-> "firefly", domain |-> ""],
     [name |-> "firefly", domain |-> "example.com"],
     [name |-> "firefly", domain |-> "example.com",
      defaults |-> [profile |-> "c.small", nodeSelector |-> "pi"]]}

TransDocuments ==
    {[apps |-> <<[name |-> "web", config |-> d]>>, cluster |-> cluster,
      nodes |-> NodesConfig, networkTypes |-> TransNetworkTypes] :
        d \in TransAppDecls, cluster \in TransClusters}

InitTranslate ==
    /\ pc = "call" /\ mode = "none"
    /\ cfg \in TransDocuments
    /\ platform = load(cfg)
    /\ store = EmptyDict /\ store0 = EmptyDict
    /\ errors = <<>> /\ current = EmptyDict /\ desired = EmptyDict
    /\ changes = <<>> /\ translated = <<>> /\ written = <<>>
    /\ analysis = Null /\ prev = "none"
    /\ arg = Null /\ ret = Null

\* AppTranslator.translate_app on the one app of the document
Translate ==
    /\ pc = "call"
    /\ LET app == Apps[1]
           t == translate_app(platform, app.name, app.config, Get(cfg, "cluster", EmptyDict))
       IN  /\ ret' = t.values
           /\ platform' = t.platform
           /\ translated' = <<app.name>>
    /\ pc' = "returned"
    /\ UNCHANGED <<mode, cfg, store, errors, current, desired, changes,
                   written, analysis, prev, store0, arg>>

NextTranslate == Translate

SpecTranslate == InitTranslate /\ [][NextTranslate]_vars

\* the key paths of a tree, and the subtree at a path
RECURSIVE PathsOf(_)
PathsOf(t) ==
    IF t.kind # "map" THEN {}
    ELSE UNION {{<<k>>} \cup {<<k>> \o q : q \in PathsOf(t.m[k])} : k \in DOMAIN t.m}

RECURSIVE At(_, _)
At(t, path) == IF path = <<>> THEN t ELSE At(t.m[Head(path)], Tail(path))

\* the facets in the order the claim gives them
ClaimedOrder == <<"profile", "nodeSelector", "network", "storage", "ingress">>

\* what facet i contributes for the app of the document, as plain data
Contribution(i) ==
    Deref(facet(ClaimedOrder[i], load(cfg), Apps[1].name, Apps[1].config,
                Get(cfg, "cluster", EmptyDict)),
          load(cfg))

\* facet k writes at the path or above it
Overwrites(k, path) ==
    \E n \in 1..Len(path) : SubSeq(path, 1, n) \in PathsOf(Contribution(k))

\* the translated values tree, as plain data
Translated == Deref(ret, platform)

\* C9: the facets are applied in the order profile, node-selector, network,
\* storage, ingress: where two facets write the same path and not both values
\* are maps the later facet's value is in the result; where both are maps the
\* result holds the keys of both.
C9_FacetPrecedence ==
    (pc = "returned" /\ ~Raised(ret)) =>
        \A i, j \in DOMAIN ClaimedOrder :
            i < j =>
                \A path \in PathsOf(Contribution(i)) \cap PathsOf(Contribution(j)) :
                    (\A k \in DOMAIN ClaimedOrder : k > j => ~Overwrites(k, path)) =>
                        /\ path \in PathsOf(Translated)
                        /\ IF At(Contribution(i), path).kind = "map"
                              /\ At(Contribution(j), path).kind = "map"
                           THEN /\ At(Translated, path).kind = "map"
                                /\ DOMAIN At(Contribution(i), path).m \subseteq DOMAIN At(Translated, path).m
                                /\ DOMAIN At(Contribution(j), path).m \subseteq DOMAIN At(Translated, path).m
                           ELSE At(Translated, path) = At(Contribution(j), path)

\* the node-selector facet and the network facet both write
\* defaultPodOptions.nodeSelector, and add different keys to defaultPodOptions
C9_Witness ==
    /\ pc = "returned" /\ ~Raised(ret)
    /\ <<"defaultPodOptions", "nodeSelector">> \in PathsOf(Contribution(2))
    /\ <<"defaultPodOptions", "nodeSelector">> \in PathsOf(Contribution(3))
    /\ At(Contribution(2), <<"defaultPodOptions", "nodeSelector">>).kind = "map"
    /\ At(Translated, <<"defaultPodOptions", "nodeSelector">>) = Str("any")
    /\ At(Translated, <<"defaultPodOptions", "hostNetwork">>) = Bool(TRUE)

\* the key of the app declaration that selects each facet
FacetKey == <<"profile", "nodeSelector", "network", "storage", "ingress">>

Declares(i) == FacetKey[i] \in DOMAIN Apps[1].config

ClusterOfDoc == Get(cfg, "cluster", EmptyDict)

DefaultOf(key) == Get(Get(ClusterOfDoc, "defaults", EmptyDict), key, NoneStr)

\* the base tree with the contributions of the facets from k on merged into
\* it in order, that of facet `skip` left out
RECURSIVE MergedFrom(_, _, _)
MergedFrom(k, skip, values) ==
    IF k > Len(ClaimedOrder) THEN values
    ELSE MergedFrom(k + 1, skip,
                    IF k = skip \/ ~Truthy(Contribution(k)) THEN values
                    ELSE deep_merge(values, Contribution(k), load(cfg)))

Without(i) == MergedFrom(1, i, base_values(Apps[1].config))

ResourcesPath == <<"controllers", "main", "containers", "main", "resources">>

\* C12 as stated: a facet the app declaration does not contain leaves nothing
\* in the values tree.
C12_AbsentFacetNoOp ==
    (pc = "returned" /\ ~Raised(ret)) =>
        \A i \in DOMAIN FacetKey : ~Declares(i) => Translated = Without(i)

\* C12, amended: storage is a no-op when absent; profile and node selector
\* are no-ops when neither the app nor the cluster defaults name one; ingress
\* is a no-op when the cluster has no domain or the app sets its flag false;
\* the network facet is never a no-op, an app without `network` gets the
\* ClusterIP service block; a profile named only by the cluster defaults
\* contributes the resources block.
C12_AbsentFacet ==
    (pc = "returned" /\ ~Raised(ret)) =>
        /\ ~Declares(4) => Translated = Without(4)
        /\ (~Declares(1) /\ DefaultOf("profile") = NoneStr) => Translated = Without(1)
        /\ (~Declares(2) /\ DefaultOf("nodeSelector") = NoneStr) => Translated = Without(2)
        /\ (~TruthyStr(Get(ClusterOfDoc, "domain", NoneStr))
                \/ ~Get(Apps[1].config, "ingress", TRUE))
                => Translated = Without(5)
        /\ ~Declares(3) =>
                /\ <<"service", "main", "ports">> \in PathsOf(Translated)
                /\ At(Translated, <<"service", "main", "type">>) = Str("ClusterIP")
        /\ (~Declares(1) /\ DefaultOf("profile") \in DOMAIN load(cfg).resourceProfiles)
                => ResourcesPath \in PathsOf(Translated)

\* an app that declares its image only, in a cluster without a domain: the
\* tree is the base tree and the service block
C12_Witness ==
    /\ pc = "returned" /\ ~Raised(ret)
    /\ DOMAIN Apps[1].config = {"image"}
    /\ "domain" \notin DOMAIN ClusterOfDoc
    /\ DOMAIN Translated.m = {"controllers", "defaultPodOptions", "service"}
    /\ Translated.m["defaultPodOptions"] = EmptyMap
    /\ ResourcesPath \notin PathsOf(Translated)

HasIngress == "ingress" \in DOMAIN Translated.m

DomainSet == TruthyStr(Get(ClusterOfDoc, "domain", NoneStr))

IngressHost == At(Translated, <<"ingress", "main", "hosts">>).q[1].m["host"]

\* C13 as stated: an ingress block only when a cluster domain is set and the
\* app's ingress flag is set, with host '<appId>.<domain>'; none for an app
\* with no ingress flag.
C13_IngressOnlyWhenFlagged ==
    (pc = "returned" /\ ~Raised(ret)) =>
        /\ HasIngress =>
                /\ DomainSet
                /\ "ingress" \in DOMAIN Apps[1].config /\ Apps[1].config["ingress"]
                /\ IngressHost = Str(Apps[1].name \o "." \o ClusterOfDoc["domain"])
        /\ "ingress" \notin DOMAIN Apps[1].config => ~HasIngress

\* C13, amended: the ingress block is there exactly when a cluster domain is
\* set and the app does not set its ingress flag false (an absent flag counts
\* as true); its host and its TLS host are '<appId>.<domain>'.
C13_IngressUnlessDisabled ==
    (pc = "returned" /\ ~Raised(ret)) =>
        /\ HasIngress <=> (DomainSet /\ ("ingress" \in DOMAIN Apps[1].config => Apps[1].config["ingress"]))
        /\ HasIngress =>
                /\ IngressHost = Str(Apps[1].name \o "." \o ClusterOfDoc["domain"])
                /\ At(Translated, <<"ingress", "main", "tls">>).q[1].m["hosts"] = List(<<IngressHost>>)
        /\ ~DomainSet => ~HasIngress

\* an app without an ingress flag in a cluster with a domain
C13_Witness ==
    /\ pc = "returned" /\ ~Raised(ret)
    /\ "ingress" \notin DOMAIN Apps[1].config
    /\ HasIngress
    /\ IngressHost = Str("web.example.com")

DeclaredPorts == Get(Apps[1].config, "ports", <<>>)

ServicePorts == At(Translated, <<"service", "main", "ports">>)

\* C14: the service block has one port entry per declared port, whatever the
\* names of the ports, and the single entry http 80 -> 8080 when the app
\* declares no ports.
C14_OnePortEntryPerPort ==
    (pc = "returned" /\ ~Raised(ret)) =>
        IF Len(DeclaredPorts) > 0
        THEN Cardinality(DOMAIN ServicePorts.m) = Len(DeclaredPorts)
        ELSE /\ DOMAIN ServicePorts.m = {"http"}
             /\ ServicePorts.m["http"].m["port"] = Num(80)
             /\ ServicePorts.m["http"].m["targetPort"] = Num(8080)

---------------------------------------------------------------------------
(* Pure-function specification of deep_merge                               *)

MaxLeaf == 2

MergeLeaves == {Num(n) : n \in 1..MaxLeaf}
MergeInner == {Map(f) : f \in UNION {[D -> MergeLeaves] : D \in SUBSET {"c", "d"}}}
MergeValues == MergeLeaves \cup MergeInner
MergeTrees == {Map(f) : f \in UNION {[D -> MergeValues] : D \in SUBSET {"a", "b"}}}

InitMerge ==
    /\ pc = "call" /\ mode = "none"
    /\ cfg = Null /\ platform = Null
    /\ store = EmptyDict /\ store0 = EmptyDict
    /\ errors = <<>> /\ current = EmptyDict /\ desired = EmptyDict
    /\ changes = <<>> /\ translated = <<>> /\ written = <<>>
    /\ analysis = Null /\ prev = "none"
    /\ arg \in MergeTrees \X MergeTrees
    /\ ret = Null

Merge ==
    /\ pc = "call"
    /\ pc' = "returned"
    /\ ret' = deep_merge(arg[1], arg[2], platform)
    /\ UNCHANGED <<arg, runVars>>

\* deep_merge(target, source) once more, on the target the first call left
MergeAgain ==
    /\ pc = "returned"
    /\ pc' = "remerged"
    /\ ret' = deep_merge(ret, arg[2], platform)
    /\ UNCHANGED <<arg, runVars>>

NextMerge == Merge \/ MergeAgain

SpecMerge == InitMerge /\ [][NextMerge]_vars

\* the claimed result of a merge, key by key
RECURSIVE IsMergeOf(_, _, _)
IsMergeOf(R, A, B) ==
    /\ R.kind = "map"
    /\ DOMAIN R.m = DOMAIN A.m \cup DOMAIN B.m
    /\ \A k \in DOMAIN R.m :
            IF k \in DOMAIN B.m
            THEN IF k \in DOMAIN A.m /\ A.m[k].kind = "map" /\ B.m[k].kind = "map"
                 THEN IsMergeOf(R.m[k], A.m[k], B.m[k])
                 ELSE R.m[k] = B.m[k]
            ELSE R.m[k] = A.m[k]

ExampleA == Map([a |-> Num(1), b |-> Map([c |-> Num(1)])])
ExampleB == Map([b |-> Map([c |-> Num(2)])])
ExampleMerged == Map([a |-> Num(1), b |-> Map([c |-> Num(2)])])

\* C10: deep_merge(A, B) has, for every key, B's value when the key is in B and
\* not both values are maps, the recursive merge when both are maps, and A's
\* value when the key is only in A; merge({a:1,b:{c:1}}, {b:{c:2}}) is
\* {a:1,b:{c:2}}.
C10_DeepMergeKeywise ==
    pc = "returned" =>
        /\ IsMergeOf(ret, arg[1], arg[2])
        /\ (arg = <<ExampleA, ExampleB>> => ret = ExampleMerged)

C10_Witness ==
    /\ pc = "returned"
    /\ arg = <<ExampleA, ExampleB>>
    /\ ret = ExampleMerged

\* C11: deep_merge is idempotent: merging B a second time into the result of
\* merging B into A leaves that result as it is.
C11_Idempotent ==
    [][(pc = "returned" /\ pc' = "remerged") => ret' = ret]_vars

\* a second merge after a first one that replaced a scalar, recursed into a
\* shared map and added a key
C11_Witness ==
    /\ pc = "remerged"
    /\ arg[1] = Map([a |-> Num(1), b |-> Map([c |-> Num(1)])])
    /\ arg[2] = Map([a |-> Num(2), b |-> Map([c |-> Num(2), d |-> Num(1)])])
    /\ ret = arg[2]

---------------------------------------------------------------------------
(* Specification of the capacity analysis: analyze_capacity and the status  *)
(* print_capacity_analysis prints, on one configuration                     *)

MaxCount == 2

\* the declarations of node group pi: every combination of a count, cpu or
\* its alias cores, memory or its alias mem; the empty mapping among them
CapCounts == {Num(c) : c \in -1..MaxCount} \cup {Str("2")}

CapNodeDecls ==
    {Map(c) : c \in
        Combine(Combine(Opt("count", CapCounts), Opt("cpu", {Num(4), Str("0")})),
                Combine(Opt("cores", {Num(8)}),
                        Combine(Opt("memory", {Str("5Gi"), Str("2Gi"), Str("0")}),
                                Opt("mem", {Str("8Gi")}))))}

CapNodes == {<<>>} \cup {<<[name |-> "pi", config |-> c]>> : c \in CapNodeDecls}

\* the platform's capacity table, when the document overrides nodeSelectors
CapacityTable ==
    [pi |-> [labels |-> Map([type |-> Str("pi")]),
             capacity |-> [cpu |-> "2000m", memory |-> "6Gi", count |-> 3]]]

CapApps ==
    {<<[name |-> "web", config |-> [image |-> <<"nginx">>, profile |-> "c.small", nodeSelector |-> "pi"]]>>,
     <<[name |-> "web", config |-> [image |-> <<"nginx">>, profile |-> "r.large", nodeSelector |-> "pi"]]>>,
     <<[name |-> "web", config |-> [image |-> <<"nginx">>, nodeSelector |-> "pi"]],
       [name |-> "db", config |-> [image |-> <<"redis">>, profile |-> "c.pico", nodeSelector |-> "pi"]]>>,
     <<[name |-> "web", config |-> [image |-> <<"nginx">>, profile |-> "r.large", nodeSelector |-> "pi"]],
       [name |-> "db", config |-> [image |-> <<"redis">>, profile |-> "c.pico"]]>>}

CapDocuments ==
    {[apps |-> apps, cluster |-> [name |-> "firefly"], nodes |-> nodes] @@ table :
        apps \in CapApps, nodes \in CapNodes,
        table \in {EmptyDict, [nodeSelectors |-> CapacityTable]}}

InitCapacity ==
    /\ pc = "call" /\ mode = "none"
    /\ cfg \in CapDocuments
    /\ platform = load(cfg)
    /\ store = EmptyDict /\ store0 = EmptyDict
    /\ errors = <<>> /\ current = EmptyDict /\ desired = EmptyDict
    /\ changes = <<>> /\ translated = <<>> /\ written = <<>>
    /\ analysis = Null /\ prev = "none"
    /\ arg = Null /\ ret = Null

\* CapacityPlanner.analyze_capacity
AnalyzeCapacity ==
    /\ pc = "call"
    /\ analysis' = analyze_capacity(platform, cfg)
    /\ pc' = "analysed"
    /\ UNCHANGED <<mode, cfg, platform, store, errors, current, desired, changes,
                   translated, written, prev, store0, arg, ret>>

\* CapacityPlanner.print_capacity_analysis
PrintCapacity ==
    /\ pc = "analysed"
    /\ ~Raised(analysis)
    /\ ret' = print_capacity_analysis(analysis)
    /\ pc' = "printed"
    /\ UNCHANGED <<mode, cfg, platform, store, errors, current, desired, changes,
                   translated, written, analysis, prev, store0, arg>>

NextCapacity == AnalyzeCapacity \/ PrintCapacity

SpecCapacity == InitCapacity /\ [][NextCapacity]_vars

Analysed == pc \in {"analysed", "printed"} /\ ~Raised(analysis)

Groups == DOMAIN analysis.groups

\* the declaration of a node group under `nodes`, if there is one
Declared(n) == n \in Keys(Get(cfg, "nodes", <<>>))

Declaration(n) == cfg.nodes[Item(cfg.nodes, n)].config.m

\* the apps of the document that run on node group n
Assigned(n) ==
    SelectSeq(cfg.apps, LAMBDA app : Get(app.config, "nodeSelector", "default") = n)

Quantities == {"cpu_request", "cpu_limit", "memory_request", "memory_limit"}

\* the requests and limits of the profile an app names
ProfileOf(app) ==
    IF "profile" \in DOMAIN app.config
    THEN load(cfg).resourceProfiles[app.config["profile"]]
    ELSE DefaultMinimalResources

Demand(app, quantity) ==
    CASE quantity = "cpu_request" -> parse_cpu(Spell[ProfileOf(app).cpu.requests]).value
      [] quantity = "cpu_limit" -> parse_cpu(Spell[ProfileOf(app).cpu.limits]).value
      [] quantity = "memory_request" -> parse_memory(Spell[ProfileOf(app).memory.requests]).value
      [] quantity = "memory_limit" -> parse_memory(Spell[ProfileOf(app).memory.limits]).value

RECURSIVE DemandSum(_, _)
DemandSum(apps, quantity) ==
    IF apps = <<>> THEN FromInt(0)
    ELSE FAdd(Demand(Head(apps), quantity), DemandSum(Tail(apps), quantity))

AtLeastOne(count) == IF count < 1 THEN 1 ELSE count

Bytes(k, e2) == Float(k, 1, e2, 0)

\* 6.25
SixAndAQuarter == Float(25, 1, -2, 0)

\* the scenario of the claim: web with requests 250m/512Mi alone in group pi
\* with count=2, cpu=4, mem=8Gi
Scenario ==
    /\ Len(cfg.apps) = 1 /\ cfg.apps[1].config["profile"] = "c.small"
    /\ Declared("pi")
    /\ Declaration("pi") = [count |-> Num(2), cpu |-> Num(4), mem |-> Str("8Gi")]

\* C15: each aggregated demand of a node group is the sum of that quantity
\* over the apps assigned to the group, times max(1, node count); the scenario
\* gives 500m/1024Mi against 8000m/16Gi, 6.25 % twice, status available.
C15_DemandTimesNodes ==
    Analysed =>
        /\ \A n \in Groups : \A quantity \in Quantities :
                analysis.groups[n].usage[quantity]
                    = FMul(DemandSum(Assigned(n), quantity),
                           FromInt(AtLeastOne(analysis.groups[n].capacity.count)))
        /\ Scenario =>
                /\ analysis.groups["pi"].usage.cpu_request = FromInt(500)
                /\ analysis.groups["pi"].usage.memory_request = Bytes(1024, 20)
                /\ analysis.groups["pi"].usage.total_cpu_capacity = FromInt(8000)
                /\ analysis.groups["pi"].usage.total_memory_capacity = Bytes(16, 30)
                /\ analysis.groups["pi"].percentages.cpu_request = SixAndAQuarter
                /\ analysis.groups["pi"].percentages.memory_request = SixAndAQuarter
                /\ pc = "printed" => ret["pi"] = "available"

C15_Witness ==
    /\ pc = "printed" /\ Scenario
    /\ analysis.groups["pi"].usage.cpu_request = FromInt(500)
    /\ analysis.groups["pi"].percentages.memory_request = SixAndAQuarter
    /\ ret["pi"] = "available"

\* C16: the total CPU and memory capacity of a node group are the per-node
\* quantities times the group's declared node count, for every declared
\* count, 0 and negative counts included.
C16_TotalCapacityByCount ==
    Analysed =>
        \A n \in Groups :
            LET g == analysis.groups[n]
            IN  /\ g.usage.total_cpu_capacity = FMul(g.capacity.cpu.value, FromInt(g.capacity.count))
                /\ g.usage.total_memory_capacity
                        = FMul(g.capacity.memory.value, FromInt(g.capacity.count))

ZeroPercent == FromInt(0)

\* C17: when the total capacity of a node group for a resource is zero, the
\* request and the limit percentage of that resource are exactly 0 and the
\* analysis raises nothing.
C17_ZeroCapacityZeroPercent ==
    /\ pc \in {"analysed", "printed"} => ~Raised(analysis)
    /\ Analysed =>
        \A n \in Groups :
            LET g == analysis.groups[n]
            IN  /\ g.usage.total_cpu_capacity.n = 0 =>
                        /\ g.percentages.cpu_request = ZeroPercent
                        /\ g.percentages.cpu_limit = ZeroPercent
                /\ g.usage.total_memory_capacity.n = 0 =>
                        /\ g.percentages.memory_request = ZeroPercent
                        /\ g.percentages.memory_limit = ZeroPercent

\* a group with neither CPU nor memory capacity and a demand for both
C17_Witness ==
    /\ pc = "printed"
    /\ "pi" \in Groups
    /\ analysis.groups["pi"].usage.total_cpu_capacity.n = 0
    /\ analysis.groups["pi"].usage.total_memory_capacity.n = 0
    /\ analysis.groups["pi"].usage.cpu_request.n > 0
    /\ analysis.groups["pi"].usage.memory_limit.n > 0
    /\ analysis.groups["pi"].percentages.cpu_request = ZeroPercent
    /\ analysis.groups["pi"].percentages.memory_limit = ZeroPercent

MaxRequestPct(n) ==
    FMax(analysis.groups[n].percentages.cpu_request,
         analysis.groups[n].percentages.memory_request)

\* C18 as stated: the status follows from m = max(CPU request %, memory
\* request %) alone: over-capacity when m > 100, near-capacity when
\* 80 <= m <= 100, available when m < 80.
C18_StatusInclusive80 ==
    pc = "printed" =>
        \A n \in Groups :
            ret[n] = IF FLess(Hundred, MaxRequestPct(n)) THEN "over"
                     ELSE IF ~FLess(MaxRequestPct(n), Eighty) THEN "near"
                     ELSE "available"

\* C18, amended: over-capacity when m > 100, near-capacity when
\* 80 < m <= 100, available when m <= 80; the limit percentages play no part.
C18_StatusAbove80 ==
    pc = "printed" =>
        \A n \in Groups :
            ret[n] = IF FLess(Hundred, MaxRequestPct(n)) THEN "over"
                     ELSE IF FLess(Eighty, MaxRequestPct(n)) THEN "near"
                     ELSE "available"

\* a group whose memory requests are exactly 80 % and whose memory limits are
\* above 100 %
C18_Witness ==
    /\ pc = "printed"
    /\ "pi" \in Groups
    /\ MaxRequestPct("pi") = Eighty
    /\ FLess(Hundred, analysis.groups["pi"].percentages.memory_limit)
    /\ ret["pi"] = "available"

\* a declared quantity, read with the parser of its resource
DeclaredCpu(d) ==
    IF "cpu" \in DOMAIN d THEN parse_cpu(str(d["cpu"]))
    ELSE IF "cores" \in DOMAIN d THEN parse_cpu(str(d["cores"]))
    ELSE parse_cpu(<<"4", "0", "0", "0", "m">>)

DeclaredMemory(d) ==
    IF "memory" \in DOMAIN d THEN parse_memory(str(d["memory"]))
    ELSE IF "mem" \in DOMAIN d THEN parse_memory(str(d["mem"]))
    ELSE parse_memory(<<"8", "G", "i">>)

DeclaredCount(d) == IF "count" \in DOMAIN d THEN int_of(d["count"]).n ELSE 1

TableOf(n) == Get(Get(load(cfg).nodeSelectors, n, EmptyDict), "capacity", EmptyDict)

FromDeclaration(c, n) ==
    /\ c.cpu = DeclaredCpu(Declaration(n))
    /\ c.memory = DeclaredMemory(Declaration(n))
    /\ c.count = DeclaredCount(Declaration(n))

FromTable(c, n) ==
    /\ c.cpu = parse_cpu(Spell[TableOf(n).cpu])
    /\ c.memory = parse_memory(Spell[TableOf(n).memory])
    /\ c.count = TableOf(n).count

IsDefaultCapacity(c) ==
    /\ c.cpu.value = FromInt(4000)
    /\ c.memory.value = Bytes(8, 30)
    /\ c.count = 1

---------------------------------------------------------------------------
(* Specification of the quantity parsers on strings of digits, a sign, a    *)
(* decimal point and the suffix m                                           *)

MaxLen == 4

CpuAlphabet == {"0", "1", "5", ".", "m", "-"}

CpuStrings == UNION {[1..n -> CpuAlphabet] : n \in 1..MaxLen}

\* the eight suffixes of parse_memory take these letters
MemoryAlphabet == {"1", "5", ".", "K", "M", "G", "T", "i"}

MemoryStrings == UNION {[1..n -> MemoryAlphabet] : n \in 1..MaxLen}

\* words: text without a digit
WordAlphabet == {"i", "n", "f", "m", "K"}

WordStrings == UNION {[1..n -> WordAlphabet] : n \in 0..MaxLen}

QuantityStrings == CpuStrings \cup MemoryStrings \cup WordStrings

InitQuantity ==
    /\ pc = "call" /\ mode = "none"
    /\ cfg = Null /\ platform = Null
    /\ store = EmptyDict /\ store0 = EmptyDict
    /\ errors = <<>> /\ current = EmptyDict /\ desired = EmptyDict
    /\ changes = <<>> /\ translated = <<>> /\ written = <<>>
    /\ analysis = Null /\ prev = "none"
    /\ arg \in QuantityStrings
    /\ ret = Null

\* ResourceAmount.parse_cpu
ParseCpu ==
    /\ pc = "call"
    /\ ret' = parse_cpu(arg)
    /\ pc' = "parsed"
    /\ UNCHANGED <<arg, runVars>>

\* ResourceAmount.parse_memory
ParseMemory ==
    /\ pc = "call"
    /\ ret' = parse_memory(arg)
    /\ pc' = "parsed_memory"
    /\ UNCHANGED <<arg, runVars>>

quantityFrame == <<mode, cfg, platform, store, errors, current, desired, changes,
                   translated, prev, store0, arg, ret>>

\* ResourceAmount.format_cpu on the amount parsed: written is the text
FormatCpu ==
    /\ pc = "parsed" /\ ~Raised(ret)
    /\ \E tie \in {"down", "up"} : written' = format_cpu(ret, tie)
    /\ pc' = "formatted"
    /\ UNCHANGED <<quantityFrame, analysis>>

\* ResourceAmount.format_memory on the amount parsed
FormatMemory ==
    /\ pc = "parsed_memory" /\ ~Raised(ret)
    /\ \E tie \in {"down", "up"} : written' = format_memory(ret, tie)
    /\ pc' = "formatted_memory"
    /\ UNCHANGED <<quantityFrame, analysis>>

\* ResourceAmount.parse_cpu on the text format_cpu gave: analysis is the amount
ReparseCpu ==
    /\ pc = "formatted" /\ ~Raised(written)
    /\ analysis' = parse_cpu(written.chars)
    /\ pc' = "reparsed"
    /\ UNCHANGED <<quantityFrame, written>>

\* ResourceAmount.parse_memory on the text format_memory gave
ReparseMemory ==
    /\ pc = "formatted_memory" /\ ~Raised(written)
    /\ analysis' = parse_memory(written.chars)
    /\ pc' = "reparsed_memory"
    /\ UNCHANGED <<quantityFrame, written>>

NextQuantity ==
    \/ ParseCpu
    \/ ParseMemory
    \/ FormatCpu
    \/ FormatMemory
    \/ ReparseCpu
    \/ ReparseMemory

SpecQuantity == InitQuantity /\ [][NextQuantity]_vars

\* a decimal numeral: an optional sign, digits, at most one point, a digit
\* at least
IsNumeral(s) ==
    LET body == IF Len(s) > 0 /\ s[1] = "-" THEN Tail(s) ELSE s
    IN  /\ \A i \in DOMAIN body : IsDigit(body[i]) \/ body[i] = "."
        /\ \E i \in DOMAIN body : IsDigit(body[i])
        /\ \A i, j \in DOMAIN body : (body[i] = "." /\ body[j] = ".") => i = j

\* the number a decimal numeral denotes: its integer part plus its fraction
NumberOf(s) ==
    LET negative == s[1] = "-"
        body == IF negative THEN Tail(s) ELSE s
        point == IF \E i \in DOMAIN body : body[i] = "."
                 THEN CHOOSE i \in DOMAIN body : body[i] = "."
                 ELSE Len(body) + 1
        whole == SubSeq(body, 1, point - 1)
        fraction == SubSeq(body, point + 1, Len(body))
        magnitude == FAdd(FromInt(DigitsValue(whole)),
                          FDiv(FromInt(DigitsValue(fraction)), FromInt(Pow(10, Len(fraction)))))
    IN  IF negative THEN FMul(FromInt(-1), magnitude) ELSE magnitude

\* C20: for a valid CPU string ending in m the scalar value is the number
\* before the m; for a valid plain number it is that number times 1000;
\* '500m' gives 500 and '1.5' gives 1500.
C20_ParseCpuMillicores ==
    pc = "parsed" =>
        /\ IF EndsWith(arg, <<"m">>)
           THEN IsNumeral(DropLast(arg, 1)) =>
                    /\ ~Raised(ret)
                    /\ ret.value = NumberOf(DropLast(arg, 1))
           ELSE IsNumeral(arg) =>
                    /\ ~Raised(ret)
                    /\ ret.value = FMul(NumberOf(arg), FromInt(1000))
        /\ arg = <<"5", "0", "0", "m">> => ret.value = FromInt(500)
        /\ arg = <<"1", ".", "5">> => ret.value = FromInt(1500)

C20_Witness ==
    /\ pc = "parsed"
    /\ arg = <<"1", ".", "5">>
    /\ ret = ResourceAmount(FromInt(1500), arg)

\* the multipliers as documented: powers of 1024 and of 1000
Kibi == FromInt(1024)

Kilo == FromInt(1000)

DocumentedUnits ==
    {<<<<"K", "i">>, Kibi>>,
     <<<<"M", "i">>, FMul(Kibi, Kibi)>>,
     <<<<"G", "i">>, FMul(Kibi, FMul(Kibi, Kibi))>>,
     <<<<"T", "i">>, FMul(FMul(Kibi, Kibi), FMul(Kibi, Kibi))>>,
     <<<<"K">>, Kilo>>,
     <<<<"M">>, FMul(Kilo, Kilo)>>,
     <<<<"G">>, FMul(Kilo, FMul(Kilo, Kilo))>>,
     <<<<"T">>, FMul(FMul(Kilo, Kilo), FMul(Kilo, Kilo))>>}

\* the documented units whose suffix the text ends with
UnitsEnding(s) == {u \in DocumentedUnits : EndsWith(s, u[1])}

\* of those, the one with the longest suffix
LongestUnit(s) ==
    CHOOSE u \in UnitsEnding(s) : \A v \in UnitsEnding(s) : Len(v[1]) <= Len(u[1])

\* C21: for a memory string that ends with a recognized suffix, the longest
\* one counting, parse_memory returns the number before the suffix times the
\* suffix's multiplier (Ki = 1024, Mi = 1024^2, Gi = 1024^3, Ti = 1024^4,
\* K = 1000, M = 1000^2, G = 1000^3, T = 1000^4); a number without a suffix
\* is taken as bytes.
C21_ParseMemoryUnits ==
    pc = "parsed_memory" =>
        /\ IF UnitsEnding(arg) # {}
           THEN IsNumeral(DropLast(arg, Len(LongestUnit(arg)[1]))) =>
                    /\ ~Raised(ret)
                    /\ ret.value = FMul(NumberOf(DropLast(arg, Len(LongestUnit(arg)[1]))),
                                        LongestUnit(arg)[2])
           ELSE IsNumeral(arg) =>
                    /\ ~Raised(ret)
                    /\ ret.value = NumberOf(arg)
        /\ arg = <<"1", "K", "i">> => ret.value = FromInt(1024)
        /\ arg = <<"1", ".", "5", "K">> => ret.value = FromInt(1500)
        /\ arg = <<"1", "5">> => ret.value = FromInt(15)

\* 5Gi parsed: five times 1024^3 bytes
C21_Witness ==
    /\ pc = "parsed_memory"
    /\ arg = <<"5", "G", "i">>
    /\ ret = ResourceAmount(FMul(FromInt(5), FMul(Kibi, FMul(Kibi, Kibi))), arg)

\* a quantity as the configurations write it: an unsigned decimal numeral,
\* then nothing or one suffix
PlainNumeral(s) == IsNumeral(s) /\ s[1] # "-"

ValidCpu(s) == PlainNumeral(IF EndsWith(s, <<"m">>) THEN DropLast(s, 1) ELSE s)

ValidMemory(s) ==
    PlainNumeral(IF UnitsEnding(s) # {} THEN DropLast(s, Len(LongestUnit(s)[1])) ELSE s)

\* C22: value round trip: for a valid quantity string, parsing it, formatting
\* the amount and parsing the formatted text gives the value the first parse
\* gave, for CPU (parse_cpu, format_cpu) and for memory (parse_memory,
\* format_memory).
C22_ValueRoundTrip ==
    /\ (pc = "reparsed" /\ ValidCpu(arg)) =>
            (~Raised(analysis) /\ analysis.value = ret.value)
    /\ (pc = "reparsed_memory" /\ ValidMemory(arg)) =>
            (~Raised(analysis) /\ analysis.value = ret.value)

\* the text has no numeric prefix: no beginning of it is a decimal numeral
NoNumericPrefix(s) == \A k \in 1..Len(s) : ~IsNumeral(SubSeq(s, 1, k))

\* more than one unit marker: with one m taken off the end, another ends it
TwoCpuMarkers(s) == EndsWith(s, <<"m", "m">>)

\* with the longest suffix taken off the end, another suffix ends the text
TwoMemoryMarkers(s) ==
    /\ UnitsEnding(s) # {}
    /\ UnitsEnding(DropLast(s, Len(LongestUnit(s)[1]))) # {}

\* C23: parse_cpu and parse_memory raise, and return no quantity, on text
\* without a numeric prefix and on text with more than one unit marker.
C23_MalformedRaises ==
    /\ (pc = "parsed" /\ (NoNumericPrefix(arg) \/ TwoCpuMarkers(arg))) => Raised(ret)
    /\ (pc = "parsed_memory" /\ (NoNumericPrefix(arg) \/ TwoMemoryMarkers(arg))) => Raised(ret)

---------------------------------------------------------------------------
(* Specification of the report of a plan: the manifests found on disk are   *)
(* whatever YAML the files hold, sound or damaged along the path to the     *)
(* image of the main container                                              *)

ManifestImagePath == <<"spec", "values">> \o ImagePath

DamageKinds == {"missing", "null", "scalar", "list"}

DamageValue(damage) ==
    CASE damage = "null" -> Null
      [] damage = "scalar" -> Str("x")
      [] OTHER -> List(<<>>)

\* doc with the value at path removed or replaced
RECURSIVE Damaged(_, _, _)
Damaged(doc, path, damage) ==
    IF Len(path) > 1
    THEN Map(Put(doc.m, Head(path), Damaged(doc.m[Head(path)], Tail(path), damage)))
    ELSE IF damage = "missing"
    THEN Map([k \in DOMAIN doc.m \ {Head(path)} |-> doc.m[k]])
    ELSE Map(Put(doc.m, Head(path), DamageValue(damage)))

ReportConfigs ==
    {[image |-> <<"nginx", "1.25">>, nodeSelector |-> "pi"],
     [image |-> <<"nginx">>, network |-> "host", ingress |-> FALSE]}

DamagedOf(doc) ==
    {Damaged(doc, SubSeq(ManifestImagePath, 1, k), damage) :
        k \in 1..Len(ManifestImagePath), damage \in DamageKinds}
    \cup {Damaged(doc, ManifestImagePath \o <<key>>, damage) :
            key \in {"repository", "tag"}, damage \in {"missing", "null"}}
    \cup {Damaged(doc, <<"spec", "values">> \o ContainerPath \o <<"resources">>, damage) :
            damage \in DamageKinds}

ReportManifests(docs) == docs \cup UNION {DamagedOf(doc) : doc \in docs}

ReportStores ==
    {EmptyDict, "old" :> WrittenDoc("old", [image |-> <<"nginx">>])}
    \cup {"web" :> doc : doc \in ReportManifests({WrittenDoc("web", c) : c \in ReportConfigs})}

InitReport ==
    /\ pc = "plan_begin" /\ mode = "plan"
    /\ cfg \in {Document(<<[name |-> "web", config |-> c]>>) : c \in ReportConfigs}
    /\ platform = load(cfg)
    /\ store \in ReportStores
    /\ store0 = store
    /\ errors = <<>> /\ current = EmptyDict /\ desired = EmptyDict
    /\ changes = <<>> /\ translated = <<>> /\ written = <<>>
    /\ analysis = Null /\ prev = "none"
    /\ arg = Null /\ ret = Null

\* differ.print_changes(changes), the line of plan after get_changes
PlanPrintChanges ==
    /\ pc = "plan_capacity"
    /\ ret' = print_changes(changes, platform)
    /\ pc' = IF Raised(ret') THEN "crashed" ELSE "reported"
    /\ UNCHANGED <<mode, cfg, platform, store, errors, current, desired, changes,
                   translated, written, analysis, prev, store0, arg>>

NextReport ==
    \/ PlanLoadCurrent
    \/ PlanTranslate
    \/ PlanGetChanges
    \/ PlanPrintChanges

SpecReport == InitReport /\ [][NextReport]_vars

\* walking the path by hand: some key on it is missing, or what it holds is
\* no map (null, a scalar, a list)
RECURSIVE Broken(_, _)
Broken(doc, path) ==
    /\ path # <<>>
    /\ \/ doc.kind # "map"
       \/ Head(path) \notin DOMAIN doc.m
       \/ doc.m[Head(path)].kind # "map"
       \/ Broken(doc.m[Head(path)], Tail(path))

Printed == pc \in {"reported", "crashed"}

\* C24: extracting the image and the resources from the manifests of a change
\* is null-safe at every depth: when a key on the path spec, values,
\* controllers, main, containers, main, image is missing, null or no map, the
\* image is 'unknown' and the resources are the empty map, and printing the
\* changes does not fail.
C24_NullSafeReport ==
    Printed =>
        /\ ~Raised(ret)
        /\ \A i \in DOMAIN ret.lines :
              (ret.lines[i].action = "update" /\ Broken(current[ret.lines[i].app], ManifestImagePath))
                  => /\ ret.lines[i].image # <<>>
                     /\ ret.lines[i].image[1] = "unknown"

---------------------------------------------------------------------------
(* Validation, then translation and diff: what a plan does with a          *)
(* configuration the validator has been given                              *)

\* declared ports, with and without the port number
PlanPorts ==
    {<<[name |-> "http", port |-> 8080]>>,
     <<[port |-> 80], [name |-> "metrics", port |-> 9090, protocol |-> "TCP"]>>,
     <<[name |-> "http"]>>,
     <<[port |-> 80], [name |-> "metrics", targetPort |-> 9090]>>}

\* declared volumes, with and without the fields translate_storage reads
PlanStorage ==
    {[data |-> [type |-> "hostPath", mount |-> "/data", path |-> "/srv/data"]],
     [data |-> [type |-> "emptyDir", mount |-> "/data"]],
     [data |-> [type |-> "hostPath", mount |-> "/data"]],
     [data |-> [type |-> "persistentVolumeClaim", mount |-> "/data"]],
     [data |-> [type |-> "nfs", mount |-> "/data", server |-> "nas"]],
     [data |-> [mount |-> "/data"]],
     [data |-> [type |-> "emptyDir"]]}

PlanAppDecls ==
    Combine(Combine(Combine(Opt("image", {<<"nginx", "1.25">>}), Opt("profile", {"c.small", "bogus"})),
                    Combine(Opt("nodeSelector", {"pi", "bare", "ghost"}), Opt("network", {"host", "mesh"}))),
            Combine(Opt("ports", PlanPorts), Opt("storage", PlanStorage)))

PlanClusters ==
    {[name |-> "firefly"],
     [name |-> "firefly", domain |-> "example.com", defaults |-> [profile |-> "c.small"]]}

\* the node group pi is declared by the document only: the translator finds
\* it among the node selectors because load adds a label for it, and finds
\* no labels for a group the platform's own table declares without any
PlanDocuments ==
    {[apps |-> <<[name |-> "web", config |-> d]>>, cluster |-> cluster,
      nodes |-> NodesConfig, nodeSelectors |-> [bare |-> EmptyDict]] :
        d \in PlanAppDecls, cluster \in PlanClusters}

InitValidated ==
    /\ pc = "idle" /\ mode = "none"
    /\ cfg \in PlanDocuments
    /\ platform = load(cfg)
    /\ store \in StoresOf([web |-> StoredDocs["web"]])
    /\ store0 = store
    /\ errors = <<>> /\ current = EmptyDict /\ desired = EmptyDict
    /\ changes = <<>> /\ translated = <<>> /\ written = <<>>
    /\ analysis = Null /\ prev = "none"
    /\ arg = Null /\ ret = Null

\* plan from its first line up to the change list: validation, the current
\* state, the desired state, the diff
StartValidatedPlan == pc = "idle" /\ StartPlan

NextValidated ==
    \/ StartValidatedPlan
    \/ PlanLoadCurrent
    \/ PlanTranslate
    \/ PlanGetChanges

SpecValidated == InitValidated /\ [][NextValidated]_vars

\* the run passed validation
Validated == mode = "plan" /\ validate(errors)

\* every port of the app declares its number, and every volume the fields
\* its kind requires
RequiredOf(volume) ==
    {"type", "mount"}
    \cup (IF "type" \notin DOMAIN volume THEN {}
          ELSE CASE volume["type"] = "hostPath" -> {"path"}
                 [] volume["type"] = "persistentVolumeClaim" -> {"size"}
                 [] volume["type"] = "nfs" -> {"server", "path"}
                 [] OTHER -> {})

WellFormed(app_config) ==
    /\ \A i \in DOMAIN Get(app_config, "ports", <<>>) : "port" \in DOMAIN app_config["ports"][i]
    /\ \A v \in DOMAIN Get(app_config, "storage", EmptyDict) :
            RequiredOf(app_config["storage"][v]) \subseteq DOMAIN app_config["storage"][v]

\* C25: in a run over a configuration that passed validation, translating the
\* apps and computing the diff never raise: the run does not end in an
\* exception, whatever profile, network type, node group, ports or storage the
\* app declares.
C25_ValidatedNeverRaises ==
    Validated => pc # "crashed"

---------------------------------------------------------------------------
(* The plan command alone, with get_changes called a second time           *)

\* differ.get_changes once more on the same differ; the list of the first
\* call is kept in ret until plan returns
PlanGetChangesAgain ==
    /\ pc = "plan_capacity"
    /\ ret = Null
    /\ ret' = [kind |-> "changes", list |-> changes]
    /\ changes' = get_changes(current, desired, translated, platform)
    /\ UNCHANGED <<pc, mode, cfg, platform, store, errors, current, desired,
                   translated, written, analysis, prev, store0, arg>>

NextPlan ==
    \/ StartPlan
    \/ LoadConfig
    \/ PlanLoadCurrent
    \/ PlanTranslate
    \/ PlanGetChanges
    \/ PlanGetChangesAgain
    \/ PlanCapacity

SpecPlan == Init /\ [][NextPlan]_vars

\* the step is a call of get_changes, the first or the second
GetChangesStep == pc' = "plan_capacity"

\* C26: a plan never mutates the current state. The store is the same after
\* every step of plan as when plan began; the current-state map is assigned
\* only by the load at the start, and is then the store; a call of
\* get_changes leaves the current-state and the desired-state map as they
\* were, and a second call returns the list of the first.
C26_PlanNeverMutates ==
    [][mode' = "plan" =>
          /\ store' = store /\ store' = store0'
          /\ current' # current => pc \in Resting \cup {"plan_begin"}
          /\ pc = "plan_begin" => current' = store0
          /\ GetChangesStep => current' = current /\ desired' = desired
          /\ (GetChangesStep /\ pc = "plan_capacity") => changes' = changes]_vars

\* a second get_changes was called on a store with a manifest to update and
\* one to delete
C26_Witness ==
    /\ mode = "plan" /\ pc = "plan_capacity"
    /\ ret # Null
    /\ ret.list = changes
    /\ \E i, j \in DOMAIN changes : changes[i].action = "update" /\ changes[j].action = "delete"
    /\ store = store0 /\ current = store

---------------------------------------------------------------------------
(* The generator's manifest and the differ's, checked under Spec           *)

\* the two constructions of the manifest of one app, from one values tree
SameConstruction(app) ==
    LET t == translate_app(platform, app.name, app.config, Get(cfg, "cluster", EmptyDict))
        helm_chart_config == Get(platform, "helmChart", EmptyDict)
    IN  ~Raised(t.values) =>
            build_helm_release(app.name, app.config, t.values, helm_chart_config)
                = generator_helm_release(app.name, app.config, t.values, helm_chart_config)

\* a plan that follows a completed apply has computed its desired state and
\* compared it with what it read
PlannedAfterApply == mode = "plan" /\ prev = "apply" /\ Diffed

\* C27: the manifest build_helm_release makes for an app is structurally
\* equal to the one the generator writes for the same app, config and
\* platform config, and so the manifest an apply wrote, read back by the plan
\* that follows, equals the desired manifest that plan computes for the app.
C27_WrittenEqualsDesired ==
    /\ \A i \in DOMAIN Apps : SameConstruction(Apps[i])
    /\ PlannedAfterApply => \A app_name \in DOMAIN desired : SameManifest(app_name)

---------------------------------------------------------------------------
(* What apply leaves of the store, checked under Spec                      *)

\* the app-ids of the config
ConfigIds == {Apps[i].name : i \in DOMAIN Apps}

Applying == mode = "apply" /\ pc \in {"apply_begin", "done"}

=============================================================================
